---------------------------- MODULE Spec2Model ----------------------------
(***************************************************************************)
(* A model of the xraph/ledger billing engine: the metering pipeline       *)
(* (ledger.go Meter / meterFlushWorker / flushMeterBatch), the in-memory   *)
(* store (store/memory/store.go), the entitlement evaluator                *)
(* (ledger.go Entitled), the plugin registry's dispatch (plugin registry   *)
(* Emit* / callWithTimeout) and the invoice builder                        *)
(* (ledger.go GenerateInvoice).                                            *)
(*                                                                         *)
(* The module holds several specifications over one set of variables; each *)
(* specification moves the variables of one subsystem and leaves the       *)
(* others at their initial value.                                          *)
(***************************************************************************)
EXTENDS Integers, Sequences, FiniteSets, TLC

VARIABLES
    \* ---- engine lifecycle and metering pipeline (ledger.go) ----
    enginePc,        \* "new" | "started" | "startFailed" | "stopWait" | "stopped"
    meterBuffer,     \* l.meterBuffer: the buffered channel, a FIFO of events
    stopChan,        \* TRUE once close(l.stopChan) has run
    workerPc,        \* "none" | "running" | "done": the meterFlushWorker goroutine
    batch,           \* the worker's local batch slice
    nextEventId,     \* id.NewUsageEventID(): fresh ids, modelled as a counter
    meterRet,        \* what the latest Meter call returned
    meterCalls,      \* number of Meter calls made so far
    accepted,        \* ids of the events for which Meter returned nil
    acceptedAtStop,  \* the value of accepted when Stop was called
    ingestLog,       \* every IngestBatch call of the pipeline: [events, ok]
    emitLog,         \* every Emit* call made by the engine, in order
    storeClosed,     \* TRUE once store.Close() has run
    \* ---- store: usage events (store/memory/store.go) ----
    usageEvents,     \* s.usageEvents
    lastBatch,       \* the argument of the latest direct IngestBatch call
    ingestCalls,     \* number of direct IngestBatch calls
    now,             \* time.Now(), an integer clock
    \* ---- store: plans, subscriptions, entitlement cache ----
    plans,            \* s.plans: plan id -> plan
    subscriptions,    \* s.subscriptions: subscription id -> subscription
    entitlementCache, \* s.entitlementCache: cache key -> decision
    cacheExpiry,      \* s.cacheExpiry: cache key -> absolute expiry
    cacheWrittenAt,   \* history: cache key -> the time SetCached wrote the entry
    nextSubId,        \* id.NewSubscriptionID(): fresh ids, a counter
    \* ---- one caller of Ledger.Entitled, between its store calls ----
    entPc,           \* "idle" | "getSub" | "getPlan" | "aggregate" | "setCached" | "done"
    entCtx,          \* [tenant, app, feature] of the call
    entPlanId,       \* sub.PlanID of the subscription the call resolved
    entFeature,      \* the plan feature the call resolved
    entUsed,         \* the aggregate the call read
    entRet,          \* the decision the call returns (or holds for SetCached)
    entErr,          \* the error the call returns ("nil" if none)
    entPath,         \* how the call was answered: "none" | "ctx" | "cache" | "sub" | "plan" | "feature" | "boolean" | "quota" | "error"
    entEmits,        \* the events the call emitted, in order
    entStoreFailed,  \* a store call of this Entitled call failed with a store error
    entStoreCalls,   \* history: the store methods this Entitled call has called, in order
    entAfterWrite,       \* the call started after a subscription write returned, none begun since
    entAfterCleanWrite,  \* ... and no Entitled call was in flight during that write
    \* ---- one caller of CreateSubscription / CancelSubscription ----
    wrPc,            \* "idle" | "cancelStore" | "invalidate"
    wrOp,            \* the operation in flight: [op, sub, tenant, app, cancelAt]
    wrRet,           \* what the latest subscription write returned
    anyWriteDone,    \* a subscription write has returned
    writeClean,      \* no Entitled call was in flight during the latest write
    \* ---- plugin registry and one Emit call (plugin.Registry) ----
    regPlugins,      \* r.plugins: the registered plugins, in registration order
    regOn,           \* the per-event-kind lists (r.onPlanCreated, ...): kind -> names
    regRoles,        \* r.pricingStrategies, r.usageAggregators, r.invoiceFormatters:
                     \* role -> (role name -> plugin name)
    regRet,          \* the plugin name and the result of the latest Register call
    cpPc,            \* the caller of CreatePlan: "idle" | "emit" | "done"
    cpRet,           \* what the latest CreatePlan call returned
    cpStoreOk,       \* whether the store call of the latest CreatePlan succeeded
    emitList,        \* the list the Emit call walks (its snapshot of r.onPlanCreated)
    emitIdx,         \* index in emitList of the observer being called
    emitWaiting,     \* the Emit call is in callWithTimeout's select
    started,         \* the observers whose handler goroutine was started, in order
    handlerState,    \* per started handler: "running" | "nil" | "error"
    emitWarnings,    \* what the Emit call logged: [plugin, cause]
    ctxDone,         \* the caller's context is cancelled
    crashed,         \* the process died of an unrecovered panic
    \* --- invoices ---
    invoices,        \* Store.invoices, in the order they were created
    giCalls,         \* GenerateInvoice calls made
    giSub,           \* the subscription id of the last GenerateInvoice call
    giRet,           \* its outcome: "none" | "nil" | "err" | "panic"
    giInv,           \* the invoice it returned
    giStoreFailed,   \* a store call of it failed for a reason of the store's own
    miCalls,         \* MarkInvoicePaid / MarkInvoiceVoided calls made
    miOp,            \* the last of them: "none" | "paid" | "voided"
    miId,            \* the invoice id it was given
    miRet,           \* what it returned
    \* --- library values ---
    money,           \* a chain of types.Money calls: operands, value so far, outcome
    ident            \* an identifier, its text and the outcome of parsing it

meterVars == <<enginePc, meterBuffer, stopChan, workerPc, batch, nextEventId,
               meterRet, meterCalls, accepted, acceptedAtStop, ingestLog,
               emitLog, storeClosed>>
usageVars == <<usageEvents, lastBatch, ingestCalls>>

storeVars == <<plans, subscriptions, entitlementCache, cacheExpiry, cacheWrittenAt,
              nextSubId>>
entVars == <<entPc, entCtx, entPlanId, entFeature, entUsed, entRet, entErr, entPath,
             entEmits, entStoreFailed, entStoreCalls, entAfterWrite, entAfterCleanWrite>>
wrVars == <<wrPc, wrOp, wrRet, anyWriteDone, writeClean>>
emitVars == <<regPlugins, regOn, regRoles, regRet, cpPc, cpRet, cpStoreOk, emitList, emitIdx, emitWaiting,
              started, handlerState, emitWarnings, ctxDone, crashed>>
libVars == <<money, ident>>
invVars == <<invoices, giCalls, giSub, giRet, giInv, giStoreFailed,
             miCalls, miOp, miId, miRet, libVars>>
restVars == <<storeVars, entVars, wrVars, emitVars, invVars>>

vars == <<meterVars, usageVars, now, restVars>>

---------------------------------------------------------------------------
(* Bounds of the model *)

\* Capacity of the meter channel in the model (the code's default is 10000).
MeterBufferCap == 2
\* meterBatchSize in the model (the code's default is 100).
MeterBatchSize == 2
\* Meter calls explored.
MaxMeterCalls == 4
\* Events the usage store may hold.
MaxStored == 2
\* Largest value of the clock.
MaxTime == 3
\* Plugins the registry may hold.
MaxPlugins == 2
\* Subscriptions created.
MaxSubs == 2
\* GenerateInvoice calls made.
MaxInvoiceCalls == 2
\* Invoices created directly in the store.
MaxInvoices == 2
\* MarkInvoicePaid / MarkInvoiceVoided calls made.
MaxMarkCalls == 3
\* Length of a month on the model's clock.
MonthLen == 2
\* entitlementCacheTTL on the model's clock (the code's default is 30 s).
CacheTTL == 2

---------------------------------------------------------------------------
(* Values *)

\* Identifiers are strings, modelled as sequences of characters, so that the
\* store's cache keys (fmt.Sprintf("%s:%s:%s", ...)) can be built and compared
\* as the code does.  The empty string is <<>>.
NoId == <<>>
Tenants == {<<"t">>}
Apps == {<<"a">>}
FeatureKeys == {<<"f">>}
\* The context may lack tenant_id or app_id: extract* then returns "".
CtxTenants == Tenants \cup {NoId}
CtxApps == Apps \cup {NoId}
Quantities == {-1, 2}
IdempotencyKeys == {"", "k1"}

UsageEvent(eid, t, a, f, q, ts, key) ==
    [id |-> eid, tenant |-> t, app |-> a, feature |-> f, quantity |-> q,
     timestamp |-> ts, key |-> key]

EmptyMap == [k \in {} |-> 0]

\* m[key] = v on a Go map (Store.SetCached, store.go:321-329; Registry.Register,
\* plugin registry:146-156).
MapSet(m, key, v) == [k \in DOMAIN m \cup {key} |-> IF k = key THEN v ELSE m[k]]

\* plan.Feature (plan/models.go:31-41) and entitlement.Result
\* (entitlement/models.go): the zero values.
NoFeature == [key |-> NoId, type |-> "", limit |-> 0, period |-> "", softLimit |-> FALSE]
NoResult == [allowed |-> FALSE, feature |-> NoId, used |-> 0, limit |-> 0,
             remaining |-> 0, softLimit |-> FALSE, reason |-> ""]
\* plan.Plan.Pricing == nil
NoPricing == [set |-> FALSE, amount |-> 0, currency |-> ""]
ZeroMoney == [amount |-> 0, currency |-> ""]
NoInvoice == [sub |-> 0, status |-> "", currency |-> "", lineItems |-> <<>>,
              subtotal |-> ZeroMoney, tax |-> ZeroMoney, discount |-> ZeroMoney,
              total |-> ZeroMoney, paidAt |-> 0, paymentRef |-> "",
              voidedAt |-> 0, voidReason |-> ""]
\* No chain of Money calls: every field at its zero value.
NoMoneyCall == [a |-> ZeroMoney, b |-> ZeroMoney, acc |-> ZeroMoney, ops |-> <<>>,
                panicked |-> FALSE, equal |-> FALSE]
\* id.Nil, the zero ID, and no parse made of any text.
Nil == [prefix |-> <<>>, suffix |-> <<>>, valid |-> FALSE]
NoIdent == [x |-> Nil, expected |-> <<>>, called |-> "none", parsed |-> Nil, err |-> FALSE]
NoWrite == [op |-> "none", sub |-> 0, tenant |-> NoId, app |-> NoId, cancelAt |-> 0,
            immediately |-> FALSE]

\* The event kinds of the registry that the model follows.
Kinds == {"planCreated", "shutdown"}

\* The roles the registry keeps by name in a map (plugin registry:41-45).
Roles == {"pricingStrategy", "usageAggregator", "invoiceFormatter"}
NoRoles == [r \in Roles |-> ""]

SeqToSet(s) == {s[i] : i \in DOMAIN s}
Ids(s) == {s[i].id : i \in DOMAIN s}

---------------------------------------------------------------------------
(* Store: IngestBatch (store/memory/store.go:219-235) *)

\* One iteration of the outer loop.  The scan of the stored events for e's
\* idempotency key only executes `continue` inside the inner loop over
\* s.usageEvents, which moves that inner loop on to the next stored event;
\* the append that follows the scan runs for every e, whatever the scan met.
IngestOne(stored, e) == Append(stored, e)

RECURSIVE IngestBatch(_, _)
IngestBatch(stored, events) ==
    IF events = <<>> THEN stored
    ELSE IngestBatch(IngestOne(stored, Head(events)), Tail(events))

---------------------------------------------------------------------------
(* Initial state: after memory.New() and ledger.New(store) *)

InitEngine ==
    /\ enginePc = "new"
    /\ meterBuffer = <<>>
    /\ stopChan = FALSE
    /\ workerPc = "none"
    /\ batch = <<>>
    /\ nextEventId = 1
    /\ meterRet = [tenant |-> NoId, app |-> NoId, ret |-> "none"]
    /\ meterCalls = 0
    /\ accepted = {}
    /\ acceptedAtStop = {}
    /\ ingestLog = <<>>
    /\ emitLog = <<>>
    /\ storeClosed = FALSE
    /\ usageEvents = <<>>
    /\ lastBatch = <<>>
    /\ ingestCalls = 0
    /\ now = 1
    /\ plans = EmptyMap
    /\ subscriptions = EmptyMap
    /\ entitlementCache = EmptyMap
    /\ cacheExpiry = EmptyMap
    /\ cacheWrittenAt = EmptyMap
    /\ nextSubId = 1
    /\ entPc = "idle"
    /\ entCtx = [tenant |-> NoId, app |-> NoId, feature |-> NoId]
    /\ entPlanId = "none"
    /\ entFeature = NoFeature
    /\ entUsed = 0
    /\ entRet = NoResult
    /\ entErr = "nil"
    /\ entPath = "none"
    /\ entEmits = <<>>
    /\ entStoreFailed = FALSE
    /\ entStoreCalls = <<>>
    /\ entAfterWrite = FALSE
    /\ entAfterCleanWrite = FALSE
    /\ wrPc = "idle"
    /\ wrOp = NoWrite
    /\ wrRet = "none"
    /\ anyWriteDone = FALSE
    /\ writeClean = TRUE
    /\ regPlugins = <<>>
    /\ regOn = [k \in Kinds |-> <<>>]
    /\ regRoles = [r \in Roles |-> EmptyMap]
    /\ regRet = [name |-> "", ret |-> "none"]
    /\ cpPc = "idle"
    /\ cpRet = "none"
    /\ cpStoreOk = FALSE
    /\ emitList = <<>>
    /\ emitIdx = 1
    /\ emitWaiting = FALSE
    /\ started = <<>>
    /\ handlerState = <<>>
    /\ emitWarnings = <<>>
    /\ ctxDone = FALSE
    /\ crashed = FALSE
    /\ invoices = <<>>
    /\ giCalls = 0
    /\ giSub = 0
    /\ giRet = "none"
    /\ giInv = NoInvoice
    /\ giStoreFailed = FALSE
    /\ miCalls = 0
    /\ miOp = "none"
    /\ miId = 0
    /\ miRet = "none"

\* No library call has been made.
Init ==
    /\ InitEngine
    /\ money = NoMoneyCall
    /\ ident = NoIdent

---------------------------------------------------------------------------
(* Metering pipeline (ledger.go) *)

\* The select with a default case of Meter (ledger.go:238-243): a try-send on
\* the buffered channel.  The result is the channel after the call and the
\* value Meter returns.
TrySendDropsWhenFull(buf, event) ==
    IF Len(buf) < MeterBufferCap
    THEN [buf |-> Append(buf, event), ret |-> "nil"]
    ELSE [buf |-> buf, ret |-> "nil"]
TrySend(buf, event) ==
    IF Len(buf) < MeterBufferCap
    THEN [buf |-> Append(buf, event), ret |-> "nil"]
    ELSE [buf |-> buf, ret |-> "ErrMeterBufferFull"]

\* Ledger.Meter (ledger.go:220-244).  Meter never sets an idempotency key.
\* The context check of Meter and Entitled (ledger.go:224, 308).
MissingContextTenantOnly(t, a) == t = NoId
MissingContext(t, a) == t = NoId \/ a = NoId

Meter(t, a, f, q) ==
    /\ meterCalls < MaxMeterCalls
    /\ meterCalls' = meterCalls + 1
    /\ IF MissingContext(t, a)
       THEN /\ meterRet' = [tenant |-> t, app |-> a, ret |-> "ErrInvalidInput"]
            /\ UNCHANGED <<meterBuffer, nextEventId, accepted>>
       ELSE LET event == UsageEvent(nextEventId, t, a, f, q, now, "")
                sent == TrySend(meterBuffer, event)
            IN  /\ nextEventId' = nextEventId + 1
                /\ meterBuffer' = sent.buf
                /\ meterRet' = [tenant |-> t, app |-> a, ret |-> sent.ret]
                /\ accepted' = IF sent.ret = "nil"
                               THEN accepted \cup {event.id} ELSE accepted
    /\ UNCHANGED <<enginePc, stopChan, workerPc, batch, acceptedAtStop,
                   ingestLog, emitLog, storeClosed, usageVars, now, restVars>>

FlushMeterBatchEmitsAlways(b) ==
    \E ok \in BOOLEAN :
        /\ ingestLog' = Append(ingestLog, [events |-> b, ok |-> ok])
        /\ emitLog' = Append(emitLog, [kind |-> "usageFlushed", count |-> Len(b)])
        /\ IF ok
           THEN usageEvents' = IngestBatch(usageEvents, b)
           ELSE UNCHANGED usageEvents

\* Ledger.flushMeterBatch (ledger.go:279-297): one IngestBatch call, which the
\* store may fail; onUsageFlushed is emitted after a success only.
FlushMeterBatch(b) ==
    \E ok \in BOOLEAN :
        /\ ingestLog' = Append(ingestLog, [events |-> b, ok |-> ok])
        /\ IF ok
           THEN /\ usageEvents' = IngestBatch(usageEvents, b)
                /\ emitLog' = Append(emitLog, [kind |-> "usageFlushed", count |-> Len(b)])
           ELSE UNCHANGED <<usageEvents, emitLog>>

NoFlush == UNCHANGED <<ingestLog, usageEvents, emitLog>>

\* Ledger.Start (ledger.go:92-112).
Start ==
    /\ enginePc = "new"
    /\ \E migrateOk \in BOOLEAN :
          IF migrateOk
          THEN /\ enginePc' = "started"
               /\ emitLog' = Append(emitLog, [kind |-> "init", count |-> 0])
               /\ workerPc' = "running"
          ELSE /\ enginePc' = "startFailed"
               /\ UNCHANGED <<emitLog, workerPc>>
    /\ UNCHANGED <<meterBuffer, stopChan, batch, nextEventId, meterRet, meterCalls,
                   accepted, acceptedAtStop, ingestLog, storeClosed, usageVars, now, restVars>>

\* Ledger.Stop, first half (ledger.go:116-117): close(l.stopChan), then the
\* caller blocks in l.wg.Wait().
StopBegin ==
    /\ enginePc = "started"
    /\ enginePc' = "stopWait"
    /\ stopChan' = TRUE
    /\ acceptedAtStop' = accepted
    /\ UNCHANGED <<meterBuffer, workerPc, batch, nextEventId, meterRet, meterCalls,
                   accepted, ingestLog, emitLog, storeClosed, usageVars, now, restVars>>

\* Ledger.Stop, second half (ledger.go:117-122): wg.Wait() returns once the
\* worker has called wg.Done(); then EmitShutdown and store.Close().
StopFinish ==
    /\ enginePc = "stopWait"
    /\ workerPc = "done"
    /\ enginePc' = "stopped"
    /\ emitLog' = Append(emitLog, [kind |-> "shutdown", count |-> 0])
    /\ storeClosed' = TRUE
    /\ UNCHANGED <<meterBuffer, stopChan, workerPc, batch, nextEventId, meterRet,
                   meterCalls, accepted, acceptedAtStop, ingestLog, usageVars, now, restVars>>

\* meterFlushWorker, case <-l.stopChan (ledger.go:256-261).  Go's select picks
\* any ready case, so this case may be taken while events sit in the channel.
WorkerStop ==
    /\ workerPc = "running"
    /\ stopChan
    /\ IF Len(batch) > 0 THEN FlushMeterBatch(batch) ELSE NoFlush
    /\ workerPc' = "done"
    /\ UNCHANGED <<enginePc, meterBuffer, stopChan, batch, nextEventId, meterRet,
                   meterCalls, accepted, acceptedAtStop, storeClosed, lastBatch,
                   ingestCalls, now, restVars>>

WorkerRecvPrepends ==
    /\ workerPc = "running"
    /\ Len(meterBuffer) > 0
    /\ meterBuffer' = Tail(meterBuffer)
    /\ LET b == <<Head(meterBuffer)>> \o batch
       IN  IF Len(b) >= MeterBatchSize
           THEN FlushMeterBatch(b) /\ batch' = <<>>
           ELSE NoFlush /\ batch' = b
    /\ UNCHANGED <<enginePc, stopChan, workerPc, nextEventId, meterRet, meterCalls,
                   accepted, acceptedAtStop, storeClosed, lastBatch, ingestCalls, now, restVars>>

\* A receive that leaves the event in the channel.
WorkerRecvPeeks ==
    /\ workerPc = "running"
    /\ Len(meterBuffer) > 0
    /\ meterBuffer' = meterBuffer
    /\ LET b == Append(batch, Head(meterBuffer))
       IN  IF Len(b) >= MeterBatchSize
           THEN FlushMeterBatch(b) /\ batch' = <<>>
           ELSE NoFlush /\ batch' = b
    /\ UNCHANGED <<enginePc, stopChan, workerPc, nextEventId, meterRet, meterCalls,
                   accepted, acceptedAtStop, storeClosed, lastBatch, ingestCalls, now, restVars>>

\* meterFlushWorker, case event := <-l.meterBuffer (ledger.go:263-268).
WorkerRecv ==
    /\ workerPc = "running"
    /\ Len(meterBuffer) > 0
    /\ meterBuffer' = Tail(meterBuffer)
    /\ LET b == Append(batch, Head(meterBuffer))
       IN  IF Len(b) >= MeterBatchSize
           THEN FlushMeterBatch(b) /\ batch' = <<>>
           ELSE NoFlush /\ batch' = b
    /\ UNCHANGED <<enginePc, stopChan, workerPc, nextEventId, meterRet, meterCalls,
                   accepted, acceptedAtStop, storeClosed, lastBatch, ingestCalls, now, restVars>>

WorkerTickNeverFlushes ==
    /\ workerPc = "running"
    /\ NoFlush /\ batch' = batch
    /\ UNCHANGED <<enginePc, meterBuffer, stopChan, workerPc, nextEventId, meterRet,
                   meterCalls, accepted, acceptedAtStop, storeClosed, lastBatch,
                   ingestCalls, now, restVars>>

WorkerTickFlushesAlways ==
    /\ workerPc = "running"
    /\ FlushMeterBatch(batch) /\ batch' = <<>>
    /\ UNCHANGED <<enginePc, meterBuffer, stopChan, workerPc, nextEventId, meterRet,
                   meterCalls, accepted, acceptedAtStop, storeClosed, lastBatch,
                   ingestCalls, now, restVars>>

WorkerTickRetriesBatch ==
    /\ workerPc = "running"
    /\ IF Len(batch) > 0
       THEN \E ok \in BOOLEAN :
              /\ ingestLog' = Append(ingestLog, [events |-> batch, ok |-> ok])
              /\ IF ok
                 THEN /\ usageEvents' = IngestBatch(usageEvents, batch)
                      /\ emitLog' = Append(emitLog, [kind |-> "usageFlushed",
                                                     count |-> Len(batch)])
                      /\ batch' = <<>>
                 ELSE UNCHANGED <<usageEvents, emitLog, batch>>
       ELSE NoFlush /\ batch' = batch
    /\ UNCHANGED <<enginePc, meterBuffer, stopChan, workerPc, nextEventId, meterRet,
                   meterCalls, accepted, acceptedAtStop, storeClosed, lastBatch,
                   ingestCalls, now, restVars>>

\* meterFlushWorker, case <-ticker.C (ledger.go:270-274).
WorkerTick ==
    /\ workerPc = "running"
    /\ IF Len(batch) > 0
       THEN FlushMeterBatch(batch) /\ batch' = <<>>
       ELSE NoFlush /\ batch' = batch
    /\ UNCHANGED <<enginePc, meterBuffer, stopChan, workerPc, nextEventId, meterRet,
                   meterCalls, accepted, acceptedAtStop, storeClosed, lastBatch,
                   ingestCalls, now, restVars>>

MeterCall == \E t \in CtxTenants, a \in CtxApps, f \in FeatureKeys, q \in Quantities :
                 Meter(t, a, f, q)

NextMeter ==
    \/ MeterCall
    \/ Start
    \/ StopBegin
    \/ StopFinish
    \/ WorkerStop
    \/ WorkerRecv
    \/ WorkerTick

SpecMeter == Init /\ [][NextMeter]_vars

---------------------------------------------------------------------------
(* Claims about the metering pipeline *)

\* C1: with tenant and app in the context, Meter enqueues the event and
\* returns nil when the buffer holds fewer than its capacity, and returns
\* ErrMeterBufferFull with the buffer unchanged when the buffer is full.
C1_MeterNeverBlocks ==
    [][(meterCalls' # meterCalls /\ meterRet'.tenant # NoId /\ meterRet'.app # NoId)
        => IF Len(meterBuffer) < MeterBufferCap
           THEN /\ meterRet'.ret = "nil"
                /\ Len(meterBuffer') = Len(meterBuffer) + 1
                /\ SubSeq(meterBuffer', 1, Len(meterBuffer)) = meterBuffer
                /\ meterBuffer'[Len(meterBuffer')].tenant = meterRet'.tenant
                /\ meterBuffer'[Len(meterBuffer')].app = meterRet'.app
           ELSE /\ meterRet'.ret = "ErrMeterBufferFull"
                /\ meterBuffer' = meterBuffer]_vars

\* A Meter call has been rejected on a full buffer, after others were accepted.
C1_Witness ==
    /\ meterRet.ret = "ErrMeterBufferFull"
    /\ Len(meterBuffer) = MeterBufferCap
    /\ accepted # {}

IngestedIds == UNION {Ids(ingestLog[i].events) : i \in DOMAIN ingestLog}

\* C2: with a store whose IngestBatch succeeds, when Stop has returned every
\* event for which Meter returned nil before Stop was called has been passed
\* to IngestBatch.
C2_StopFlushesAccepted ==
    (enginePc = "stopped" /\ \A i \in DOMAIN ingestLog : ingestLog[i].ok)
        => acceptedAtStop \subseteq IngestedIds

---------------------------------------------------------------------------
(* Direct use of the store's meter interface (store/memory/store.go) *)

\* The events a caller may hand to IngestBatch; the caller sets the
\* idempotency key.
CallerEvents(eid) ==
    {UsageEvent(eid, t, a, f, q, now, k) :
        t \in Tenants, a \in Apps, f \in FeatureKeys, q \in Quantities,
        k \in IdempotencyKeys}

\* Store.IngestBatch called with a batch of one or two events.
StoreIngestBatch(events) ==
    /\ Len(usageEvents) + Len(events) <= MaxStored
    /\ usageEvents' = IngestBatch(usageEvents, events)
    /\ lastBatch' = events
    /\ ingestCalls' = ingestCalls + 1
    /\ nextEventId' = nextEventId + Len(events)
    /\ UNCHANGED <<enginePc, meterBuffer, stopChan, workerPc, batch, meterRet,
                   meterCalls, accepted, acceptedAtStop, ingestLog, emitLog,
                   storeClosed, now, restVars>>

StoreIngestCall ==
    \E e1 \in CallerEvents(nextEventId), e2 \in CallerEvents(nextEventId + 1),
       n \in 1..2 :
        StoreIngestBatch(SubSeq(<<e1, e2>>, 1, n))

\* The clock advances.
Tick ==
    /\ now < MaxTime
    /\ now' = now + 1
    /\ UNCHANGED <<meterVars, usageVars, restVars>>

NextStore ==
    \/ StoreIngestCall
    \/ Tick

SpecStore == Init /\ [][NextStore]_vars

\* What IngestBatch is to store: an event whose non-empty key is already held
\* (by a stored event or by an earlier event of the batch) is skipped, every
\* other event is appended.
RECURSIVE IngestDeduplicated(_, _)
IngestDeduplicated(stored, events) ==
    IF events = <<>> THEN stored
    ELSE LET e == Head(events)
             dup == e.key # "" /\ \E i \in DOMAIN stored : stored[i].key = e.key
         IN  IngestDeduplicated(IF dup THEN stored ELSE Append(stored, e),
                                Tail(events))

\* C3: IngestBatch stores nothing for an event whose non-empty idempotency
\* key equals that of a stored event or of an earlier event of the batch, and
\* stores every event with an empty key.
C3_IngestBatchIdempotent ==
    [][ingestCalls' # ingestCalls
        => usageEvents' = IngestDeduplicated(usageEvents, lastBatch')]_vars

---------------------------------------------------------------------------
(* Plugin registry (plugin.Registry) and Ledger.CreatePlan *)

\* The plugins a caller may register: a name, the hooks it implements and
\* what its handlers do: return nil, return an error, never return, or panic.
\* A handler that returns may do so before or after the 5-second timeout.
PluginNames == {"A", "B"}
Behaviours == {"nil", "error", "hang", "panic"}
Capabilities == {{"planCreated"}, {"shutdown"}}
Plugins == [name : PluginNames, hooks : Capabilities, does : Behaviours, roles : {NoRoles}]

PluginByName(n) == CHOOSE pl \in SeqToSet(regPlugins) : pl.name = n

RegisterOverwritesRoles(pl) ==
    /\ ~crashed
    /\ Len(regPlugins) < MaxPlugins
    /\ regRoles' = [r \in Roles |->
                       IF pl.roles[r] # "" THEN MapSet(regRoles[r], pl.roles[r], pl.name)
                                           ELSE regRoles[r]]
    /\ IF \E i \in DOMAIN regPlugins : regPlugins[i].name = pl.name
       THEN /\ regRet' = [name |-> pl.name, ret |-> "duplicate registration"]
            /\ UNCHANGED <<regPlugins, regOn>>
       ELSE /\ regRet' = [name |-> pl.name, ret |-> "nil"]
            /\ regPlugins' = Append(regPlugins, pl)
            /\ regOn' = [k \in Kinds |->
                            IF k \in pl.hooks THEN Append(regOn[k], pl.name)
                                              ELSE regOn[k]]
    /\ UNCHANGED <<meterVars, usageVars, invVars, now, storeVars, entVars, wrVars,
                   cpPc, cpRet, cpStoreOk, emitList, emitIdx, emitWaiting,
                   started, handlerState, emitWarnings, ctxDone, crashed>>

RegisterPrepends(pl) ==
    /\ ~crashed
    /\ Len(regPlugins) < MaxPlugins
    /\ IF \E i \in DOMAIN regPlugins : regPlugins[i].name = pl.name
       THEN /\ regRet' = [name |-> pl.name, ret |-> "duplicate registration"]
            /\ UNCHANGED <<regPlugins, regOn, regRoles>>
       ELSE /\ regRet' = [name |-> pl.name, ret |-> "nil"]
            /\ regPlugins' = Append(regPlugins, pl)
            /\ regOn' = [k \in Kinds |->
                            IF k \in pl.hooks THEN <<pl.name>> \o regOn[k]
                                              ELSE regOn[k]]
            /\ regRoles' = [r \in Roles |->
                               IF pl.roles[r] # ""
                               THEN MapSet(regRoles[r], pl.roles[r], pl.name)
                               ELSE regRoles[r]]
    /\ UNCHANGED <<meterVars, usageVars, invVars, now, storeVars, entVars, wrVars,
                   cpPc, cpRet, cpStoreOk, emitList, emitIdx, emitWaiting,
                   started, handlerState, emitWarnings, ctxDone, crashed>>

\* Registry.Register (plugin registry:66-168): a duplicate name is an error;
\* otherwise the plugin is appended to r.plugins and to the list of every
\* hook it implements, and set in the map of every named role it has.
Register(pl) ==
    /\ ~crashed
    /\ Len(regPlugins) < MaxPlugins
    /\ IF \E i \in DOMAIN regPlugins : regPlugins[i].name = pl.name
       THEN /\ regRet' = [name |-> pl.name, ret |-> "duplicate registration"]
            /\ UNCHANGED <<regPlugins, regOn, regRoles>>
       ELSE /\ regRet' = [name |-> pl.name, ret |-> "nil"]
            /\ regPlugins' = Append(regPlugins, pl)
            /\ regOn' = [k \in Kinds |->
                            IF k \in pl.hooks THEN Append(regOn[k], pl.name)
                                              ELSE regOn[k]]
            /\ regRoles' = [r \in Roles |->
                               IF pl.roles[r] # ""
                               THEN MapSet(regRoles[r], pl.roles[r], pl.name)
                               ELSE regRoles[r]]
    /\ UNCHANGED <<meterVars, usageVars, invVars, now, storeVars, entVars, wrVars,
                   cpPc, cpRet, cpStoreOk, emitList, emitIdx, emitWaiting,
                   started, handlerState, emitWarnings, ctxDone, crashed>>

\* The index the loop of an Emit method moves to after callWithTimeout
\* returned err for the observer at idx (plugin registry:272-281): the error
\* is logged and the range loop goes on.
AfterCallAbortsOnError(idx, list, err) ==
    IF err # "nil" THEN Len(list) + 1 ELSE idx + 1
AfterCall(idx, list, err) == idx + 1

\* Ledger.CreatePlan (ledger.go:130-142) up to the start of EmitPlanCreated
\* (plugin registry:267-271): the store call, then the snapshot of
\* r.onPlanCreated under the read lock.  With no observer the call returns.
CreatePlan(p) ==
    /\ ~crashed
    /\ cpPc \in {"idle", "done"}
    /\ \E fail \in BOOLEAN :
          IF fail \/ p.id \in DOMAIN plans
          THEN /\ cpRet' = IF fail THEN "storeErr" ELSE "ErrAlreadyExists"
               /\ cpStoreOk' = FALSE
               /\ cpPc' = "done"
               /\ UNCHANGED <<plans, emitList, emitIdx, emitWaiting, started,
                              handlerState, emitWarnings>>
          ELSE /\ plans' = [k \in DOMAIN plans \cup {p.id} |->
                              IF k = p.id THEN p ELSE plans[k]]
               /\ cpStoreOk' = TRUE
               /\ emitList' = regOn["planCreated"]
               /\ emitIdx' = 1
               /\ emitWaiting' = FALSE
               /\ started' = <<>>
               /\ handlerState' = <<>>
               /\ emitWarnings' = <<>>
               /\ IF regOn["planCreated"] = <<>>
                  THEN cpPc' = "done" /\ cpRet' = "nil"
                  ELSE cpPc' = "emit" /\ cpRet' = "none"
    /\ UNCHANGED <<meterVars, usageVars, invVars, now, subscriptions, entitlementCache,
                   cacheExpiry, cacheWrittenAt, nextSubId, entVars, wrVars, regPlugins, regOn, regRoles, regRet,
                   ctxDone, crashed>>

\* callWithTimeout, first part (plugin registry:422-426): the handler of the
\* observer at emitIdx is started on a goroutine of its own.
EmitStartHandler ==
    /\ ~crashed
    /\ cpPc = "emit"
    /\ ~emitWaiting
    /\ emitIdx <= Len(emitList)
    /\ started' = Append(started, emitList[emitIdx])
    /\ handlerState' = Append(handlerState, "running")
    /\ emitWaiting' = TRUE
    /\ UNCHANGED <<meterVars, usageVars, invVars, now, storeVars, entVars, wrVars,
                   regPlugins, regOn, regRoles, regRet, cpPc, cpRet, cpStoreOk, emitList, emitIdx,
                   emitWarnings, ctxDone, crashed>>

\* A started handler returns and its goroutine sends the result on done
\* (a channel of capacity 1, so the send never blocks).
HandlerReturn(i) ==
    /\ ~crashed
    /\ i \in DOMAIN handlerState
    /\ handlerState[i] = "running"
    /\ PluginByName(started[i]).does \in {"nil", "error"}
    /\ handlerState' = [handlerState EXCEPT ![i] = PluginByName(started[i]).does]
    /\ UNCHANGED <<meterVars, usageVars, invVars, now, storeVars, entVars, wrVars,
                   regPlugins, regOn, regRoles, regRet, cpPc, cpRet, cpStoreOk, emitList, emitIdx,
                   emitWaiting, started, emitWarnings, ctxDone, crashed>>

\* A started handler panics.  The goroutine of callWithTimeout has no
\* recover, so the panic ends the process.
HandlerPanic(i) ==
    /\ ~crashed
    /\ i \in DOMAIN handlerState
    /\ handlerState[i] = "running"
    /\ PluginByName(started[i]).does = "panic"
    /\ crashed' = TRUE
    /\ UNCHANGED <<meterVars, usageVars, invVars, now, storeVars, entVars, wrVars,
                   regPlugins, regOn, regRoles, regRet, cpPc, cpRet, cpStoreOk, emitList, emitIdx,
                   emitWaiting, started, handlerState, emitWarnings, ctxDone>>

\* The outcomes the select of callWithTimeout may take (plugin registry:
\* 428-435): the handler's result once it has been sent, the timeout (which
\* may have elapsed whatever the handler did), ctx.Err() once the context is
\* cancelled.  Go's select picks any ready case.
SelectOutcomes ==
    (IF handlerState[emitIdx] # "running" THEN {handlerState[emitIdx]} ELSE {})
    \cup {"timeout"}
    \cup (IF ctxDone THEN {"ctx"} ELSE {})

\* callWithTimeout returns, the caller logs a non-nil error and the range
\* loop goes on; after the last observer the Emit call and CreatePlan return.
EmitSelect ==
    /\ ~crashed
    /\ cpPc = "emit"
    /\ emitWaiting
    /\ \E outcome \in SelectOutcomes :
          LET next == AfterCall(emitIdx, emitList, outcome)
          IN  /\ emitWarnings' = IF outcome # "nil"
                                 THEN Append(emitWarnings,
                                             [plugin |-> emitList[emitIdx], cause |-> outcome])
                                 ELSE emitWarnings
              /\ emitIdx' = next
              /\ emitWaiting' = FALSE
              /\ IF next > Len(emitList)
                 THEN cpPc' = "done" /\ cpRet' = "nil"
                 ELSE UNCHANGED <<cpPc, cpRet>>
    /\ UNCHANGED <<meterVars, usageVars, invVars, now, storeVars, entVars, wrVars,
                   regPlugins, regOn, regRoles, regRet, cpStoreOk, emitList, started, handlerState,
                   ctxDone, crashed>>

\* The caller's context is cancelled.
CancelCtx ==
    /\ ~crashed
    /\ ~ctxDone
    /\ ctxDone' = TRUE
    /\ UNCHANGED <<meterVars, usageVars, invVars, now, storeVars, entVars, wrVars,
                   regPlugins, regOn, regRoles, regRet, cpPc, cpRet, cpStoreOk, emitList, emitIdx,
                   emitWaiting, started, handlerState, emitWarnings, crashed>>

\* The plans CreatePlan is called with in the registry's specification.
PlanIds == {"p1", "p2"}
EmitPlans == {[id |-> i, currency |-> "usd", features |-> <<>>, pricing |-> NoPricing] :
                 i \in PlanIds}

RegisterCall == \E pl \in Plugins : Register(pl)
CreatePlanEmitCall == \E p \in EmitPlans : CreatePlan(p)
HandlerReturns == \E i \in 1..MaxPlugins : HandlerReturn(i)
HandlerPanics == \E i \in 1..MaxPlugins : HandlerPanic(i)

NextEmit ==
    \/ RegisterCall
    \/ CreatePlanEmitCall
    \/ EmitStartHandler
    \/ HandlerReturns
    \/ HandlerPanics
    \/ EmitSelect
    \/ CancelCtx

SpecEmit == Init /\ [][NextEmit]_vars

\* The Emit loop runs on the caller's goroutine and time.After always fires,
\* so the loop's steps are taken once they are enabled.
FairSpecEmit ==
    SpecEmit /\ WF_vars(EmitStartHandler) /\ WF_vars(EmitSelect)

\* C7: CreatePlan returns success exactly when its store call succeeds,
\* whatever the observers of the event do (return an error, run past the
\* timeout, panic), and a panicking observer does not crash the engine.
C7_ObserverFailuresIsolated ==
    /\ ~crashed
    /\ cpPc = "done" => (cpRet = "nil" <=> cpStoreOk)

NoPanicIn(list) == \A i \in DOMAIN list : PluginByName(list[i]).does # "panic"

\* The observers registered for a kind, in registration order.
RegisteredFor(k) ==
    LET F[i \in 0..Len(regPlugins)] ==
            IF i = 0 THEN <<>>
            ELSE IF k \in regPlugins[i].hooks
                 THEN Append(F[i - 1], regPlugins[i].name) ELSE F[i - 1]
    IN  F[Len(regPlugins)]

IsPrefix(s, t) == Len(s) <= Len(t) /\ SubSeq(t, 1, Len(s)) = s

\* C8: an Emit call starts the handlers of the observers registered for its
\* kind in registration order, each exactly once, goes on to the next
\* observer after an error or a timeout (also when the handler never
\* returns), and terminates.
C8_EmitStartsAllInOrder ==
    /\ [](cpPc \in {"emit", "done"} /\ cpStoreOk
            => /\ IsPrefix(started, emitList)
               /\ IsPrefix(emitList, RegisteredFor("planCreated"))
               /\ (cpPc = "done" => started = emitList))
    /\ ((cpPc = "emit" /\ NoPanicIn(emitList)) ~> (cpPc = "done" /\ cpRet = "nil"))

\* An Emit call over two observers has returned after logging an error and a
\* timeout, one handler still running.
C8_Witness ==
    /\ cpPc = "done" /\ cpRet = "nil"
    /\ Len(emitList) = 2 /\ started = emitList
    /\ \E i, j \in DOMAIN emitWarnings :
          emitWarnings[i].cause = "error" /\ emitWarnings[j].cause = "timeout"
    /\ \E i \in DOMAIN handlerState :
          handlerState[i] = "running" /\ PluginByName(started[i]).does = "hang"

---------------------------------------------------------------------------
(* Store: subscriptions, aggregation, entitlement cache (store/memory/store.go) *)

\* Store.GetActiveSubscription (store.go:166-177): the subscriptions of the
\* pair that are active or trialing.  The code ranges over a Go map, so which
\* of several matches it returns is not determined.
ActiveSubscriptionsOnlyTrialing(t, a) ==
    {i \in DOMAIN subscriptions :
        /\ subscriptions[i].tenant = t
        /\ subscriptions[i].app = a
        /\ subscriptions[i].status = "trialing"}
ActiveSubscriptions(t, a) ==
    {i \in DOMAIN subscriptions :
        /\ subscriptions[i].tenant = t
        /\ subscriptions[i].app = a
        /\ subscriptions[i].status \in {"active", "trialing"}}

\* getStartOfPeriod (store.go:533-542): the first instant of the month or of
\* the year of t, or the zero time.
ZeroTime == 0
MonthsPerYear == 12
StartOfPeriodAlwaysMonthly(t, period) ==
    IF period \in {"monthly", "yearly"} THEN (t \div MonthLen) * MonthLen ELSE ZeroTime
StartOfPeriod(t, period) ==
    CASE period = "monthly" -> (t \div MonthLen) * MonthLen
      [] period = "yearly" -> (t \div (MonthsPerYear * MonthLen)) * (MonthsPerYear * MonthLen)
      [] OTHER -> ZeroTime

\* Store.Aggregate (store.go:237-255).
RECURSIVE SumMatching(_, _, _, _, _)
SumMatching(events, t, a, f, start) ==
    IF events = <<>> THEN 0
    ELSE LET e == Head(events)
             rest == SumMatching(Tail(events), t, a, f, start)
         IN  IF e.tenant = t /\ e.app = a /\ e.feature = f /\ e.timestamp > start
             THEN e.quantity + rest ELSE rest

AggregateAllTime(t, a, f, period) ==
    SumMatching(usageEvents, t, a, f, ZeroTime)
Aggregate(t, a, f, period) ==
    SumMatching(usageEvents, t, a, f, StartOfPeriod(now, period))

\* The cache key of GetCached / SetCached and the prefix of Invalidate
\* (store.go:310, 325, 335): fmt.Sprintf("%s:%s:%s") and fmt.Sprintf("%s:%s:").
CacheKey(t, a, f) == t \o <<":">> \o a \o <<":">> \o f
CachePrefix(t, a) == t \o <<":">> \o a \o <<":">>
HasPrefix(key, prefix) ==
    Len(key) >= Len(prefix) /\ SubSeq(key, 1, Len(prefix)) = prefix

\* Store.GetCached (store.go:306-319): a hit needs an expiry that has not
\* passed and an entry.
CacheHitIgnoresExpiry(key) ==
    key \in DOMAIN cacheExpiry /\ key \in DOMAIN entitlementCache
CacheHit(key) ==
    /\ key \in DOMAIN cacheExpiry
    /\ now < cacheExpiry[key]
    /\ key \in DOMAIN entitlementCache


\* Store.Invalidate (store.go:331-343), on one of the two maps: every key
\* with the pair's prefix is deleted.
InvalidateKeepsAll(m, t, a) == m
\* An Invalidate that empties the map.
InvalidateEverything(m, t, a) == EmptyMap
Invalidate(m, t, a) ==
    [k \in {k2 \in DOMAIN m : ~HasPrefix(k2, CachePrefix(t, a))} |-> m[k]]

---------------------------------------------------------------------------
(* Entitlement evaluator (ledger.go Entitled, plan/models.go FindFeature) *)

\* Plan.FindFeature (plan/models.go:85-92): the first feature with the key.
FeatureIndexes(p, key) == {i \in DOMAIN p.features : p.features[i].key = key}
Min(S) == CHOOSE x \in S : \A y \in S : x <= y
FindFeature(p, key) ==
    IF FeatureIndexes(p, key) = {} THEN NoFeature
    ELSE p.features[Min(FeatureIndexes(p, key))]

Max2(x, y) == IF x >= y THEN x ELSE y

\* A decision that only denies (ledger.go:309-313, 324-328, 334-338, 344-348).
Denied(key, reason) == [NoResult EXCEPT !.feature = key, !.reason = reason]

\* A boolean decision that treats the limit -1 as unlimited.
BooleanDecisionUnlimited(key, feature) ==
    [NoResult EXCEPT !.allowed = (feature.limit > 0 \/ feature.limit = -1),
                     !.feature = key, !.limit = feature.limit]

\* The decision for a boolean feature (ledger.go:352-357).
BooleanDecision(key, feature) ==
    [NoResult EXCEPT !.allowed = feature.limit > 0, !.feature = key,
                     !.limit = feature.limit]

\* The decision for a metered or seat feature (ledger.go:368-389).
DecideAllowsAtLimit(key, feature, used) ==
    LET result == [allowed |-> FALSE, feature |-> key, used |-> used,
                   limit |-> feature.limit,
                   remaining |-> Max2(0, feature.limit - used),
                   softLimit |-> feature.softLimit, reason |-> ""]
    IN  IF feature.limit = -1
        THEN [result EXCEPT !.allowed = TRUE, !.remaining = -1]
        ELSE IF used <= feature.limit
        THEN [result EXCEPT !.allowed = TRUE]
        ELSE IF feature.softLimit
        THEN [result EXCEPT !.allowed = TRUE, !.reason = "over soft limit"]
        ELSE [result EXCEPT !.allowed = FALSE, !.reason = "quota exceeded"]
Decide(key, feature, used) ==
    LET result == [allowed |-> FALSE, feature |-> key, used |-> used,
                   limit |-> feature.limit,
                   remaining |-> Max2(0, feature.limit - used),
                   softLimit |-> feature.softLimit, reason |-> ""]
    IN  IF feature.limit = -1
        THEN [result EXCEPT !.allowed = TRUE, !.remaining = -1]
        ELSE IF used < feature.limit
        THEN [result EXCEPT !.allowed = TRUE]
        ELSE IF feature.softLimit
        THEN [result EXCEPT !.allowed = TRUE, !.reason = "over soft limit"]
        ELSE [result EXCEPT !.allowed = FALSE, !.reason = "quota exceeded"]

ReaderInFlight == entPc \notin {"idle", "done"}

\* The EmitQuotaExceeded call of Entitled (ledger.go:384-388): only the
\* default case of the switch emits.
QuotaEventsOnAnyOverage(result) ==
    IF result.reason # "" THEN <<"quotaExceeded">> ELSE <<>>
QuotaEvents(result) ==
    IF result.reason = "quota exceeded" THEN <<"quotaExceeded">> ELSE <<>>

\* What an Entitled step leaves alone.
EntFrame ==
    UNCHANGED <<meterVars, usageVars, invVars, now, plans, subscriptions, nextSubId,
                emitVars, wrPc, wrOp, wrRet, anyWriteDone>>

\* Entitled, up to and including its GetCached call (ledger.go:304-319).
EntitledStart(t, a, f) ==
    /\ entPc \in {"idle", "done"}
    /\ entCtx' = [tenant |-> t, app |-> a, feature |-> f]
    /\ entPlanId' = "none"
    /\ entFeature' = NoFeature
    /\ entUsed' = 0
    /\ entErr' = "nil"
    /\ entEmits' = <<>>
    /\ entStoreFailed' = FALSE
    /\ entAfterWrite' = (wrPc = "idle" /\ anyWriteDone)
    /\ entAfterCleanWrite' = (wrPc = "idle" /\ anyWriteDone /\ writeClean)
    /\ IF MissingContext(t, a)
       THEN /\ entRet' = Denied(f, "missing tenant or app context")
            /\ entPath' = "ctx"
            /\ entPc' = "done"
            /\ entStoreCalls' = <<>>
            /\ UNCHANGED writeClean
       ELSE IF CacheHit(CacheKey(t, a, f))
       THEN /\ entRet' = entitlementCache[CacheKey(t, a, f)]
            /\ entPath' = "cache"
            /\ entPc' = "done"
            /\ entStoreCalls' = <<"GetCached">>
            /\ UNCHANGED writeClean
       ELSE /\ entRet' = NoResult
            /\ entPath' = "none"
            /\ entPc' = "getSub"
            /\ entStoreCalls' = <<"GetCached">>
            /\ writeClean' = (writeClean /\ wrPc = "idle")
    /\ UNCHANGED <<entitlementCache, cacheExpiry, cacheWrittenAt>>
    /\ EntFrame

\* Entitled: GetActiveSubscription (ledger.go:321-329).  Every error of the
\* store call is answered with the same decision.
EntGetSub ==
    /\ entPc = "getSub"
    /\ entStoreCalls' = Append(entStoreCalls, "GetActiveSubscription")
    /\ \E fail \in BOOLEAN :
        \E chosen \in IF fail THEN {0}
                       ELSE IF ActiveSubscriptions(entCtx.tenant, entCtx.app) = {} THEN {0}
                       ELSE ActiveSubscriptions(entCtx.tenant, entCtx.app) :
          IF chosen = 0
          THEN /\ entRet' = Denied(entCtx.feature, "no active subscription")
               /\ entPath' = "sub"
               /\ entPc' = "done"
               /\ entStoreFailed' = fail
               /\ UNCHANGED entPlanId
          ELSE /\ entPlanId' = subscriptions[chosen].plan
               /\ entPc' = "getPlan"
               /\ UNCHANGED <<entRet, entPath, entStoreFailed>>
    /\ UNCHANGED <<entCtx, entFeature, entUsed, entErr, entEmits, entAfterWrite,
                   entAfterCleanWrite, writeClean, entitlementCache, cacheExpiry, cacheWrittenAt>>
    /\ EntFrame

\* Entitled: GetPlan, FindFeature and the boolean decision (ledger.go:331-360).
EntGetPlan ==
    /\ entPc = "getPlan"
    /\ entStoreCalls' = Append(entStoreCalls, "GetPlan")
    /\ \E fail \in BOOLEAN :
          IF fail \/ entPlanId \notin DOMAIN plans
          THEN /\ entRet' = Denied(entCtx.feature, "plan not found")
               /\ entPath' = "plan"
               /\ entPc' = "done"
               /\ entStoreFailed' = fail
               /\ UNCHANGED entFeature
          ELSE LET feature == FindFeature(plans[entPlanId], entCtx.feature)
               IN  /\ UNCHANGED entStoreFailed
                   /\ IF feature = NoFeature
                      THEN /\ entRet' = Denied(entCtx.feature, "feature not in plan")
                           /\ entPath' = "feature"
                           /\ entPc' = "done"
                           /\ UNCHANGED entFeature
                      ELSE IF feature.type = "boolean"
                      THEN /\ entRet' = BooleanDecision(entCtx.feature, feature)
                           /\ entPath' = "boolean"
                           /\ entPc' = "setCached"
                           /\ entFeature' = feature
                      ELSE /\ entFeature' = feature
                           /\ entPc' = "aggregate"
                           /\ UNCHANGED <<entRet, entPath>>
    /\ UNCHANGED <<entCtx, entPlanId, entUsed, entErr, entEmits, entAfterWrite,
                   entAfterCleanWrite, writeClean, entitlementCache, cacheExpiry, cacheWrittenAt>>
    /\ EntFrame

\* Entitled: Aggregate, the decision and EmitQuotaExceeded (ledger.go:362-389).
EntAggregate ==
    /\ entPc = "aggregate"
    /\ entStoreCalls' = Append(entStoreCalls, "Aggregate")
    /\ \E fail \in BOOLEAN :
          IF fail
          THEN /\ entErr' = "storeErr"
               /\ entPath' = "error"
               /\ entPc' = "done"
               /\ entStoreFailed' = TRUE
               /\ UNCHANGED <<entUsed, entRet, entEmits>>
          ELSE LET used == Aggregate(entCtx.tenant, entCtx.app, entCtx.feature,
                                     entFeature.period)
                   result == Decide(entCtx.feature, entFeature, used)
               IN  /\ entUsed' = used
                   /\ entRet' = result
                   /\ entPath' = "quota"
                   /\ entPc' = "setCached"
                   /\ entEmits' = QuotaEvents(result)
                   /\ UNCHANGED <<entErr, entStoreFailed>>
    /\ UNCHANGED <<entCtx, entPlanId, entFeature, entAfterWrite,
                   entAfterCleanWrite, writeClean, entitlementCache, cacheExpiry, cacheWrittenAt>>
    /\ EntFrame

\* Entitled: SetCached, EmitEntitlementChecked on the metered path, and the
\* return (ledger.go:358-359, 391-394).
EntSetCached ==
    /\ entPc = "setCached"
    /\ entStoreCalls' = Append(entStoreCalls, "SetCached")
    /\ LET key == CacheKey(entCtx.tenant, entCtx.app, entCtx.feature)
       IN  /\ entitlementCache' = MapSet(entitlementCache, key, entRet)
           /\ cacheExpiry' = MapSet(cacheExpiry, key, now + CacheTTL)
           /\ cacheWrittenAt' = MapSet(cacheWrittenAt, key, now)
    /\ entEmits' = IF entPath = "quota"
                   THEN Append(entEmits, "entitlementChecked") ELSE entEmits
    /\ entPc' = "done"
    /\ UNCHANGED <<entCtx, entPlanId, entFeature, entUsed, entRet, entErr, entPath,
                   entStoreFailed, entAfterWrite, entAfterCleanWrite, writeClean>>
    /\ EntFrame

---------------------------------------------------------------------------
(* Subscription writes (ledger.go CreateSubscription / CancelSubscription) *)

\* What a subscription write leaves alone.
WriteFrame ==
    UNCHANGED <<meterVars, usageVars, invVars, now, plans, emitVars, entPc, entCtx, entPlanId,
                entFeature, entUsed, entRet, entErr, entPath, entEmits, entStoreFailed,
                entStoreCalls>>

\* The bookkeeping when a subscription write begins.
WriteBegins ==
    /\ entAfterWrite' = FALSE
    /\ entAfterCleanWrite' = FALSE
    /\ writeClean' = ~ReaderInFlight

\* CreateSubscription up to and including the store call (ledger.go:159-173).
\* The subscription is passed without an id and is given a fresh one.
CreateSubscription(t, a, planId, status) ==
    /\ wrPc = "idle"
    /\ nextSubId <= MaxSubs
    /\ LET sub == [tenant |-> t, app |-> a, plan |-> planId, status |-> status,
                   periodEnd |-> now + MonthLen, cancelAt |-> 0]
       IN  /\ subscriptions' = MapSet(subscriptions, nextSubId, sub)
           /\ nextSubId' = nextSubId + 1
           /\ wrPc' = "invalidate"
           /\ wrOp' = [op |-> "create", sub |-> nextSubId, tenant |-> t,
                       app |-> a, cancelAt |-> 0, immediately |-> FALSE]
           /\ wrRet' = "none"
           /\ WriteBegins
    /\ UNCHANGED <<entitlementCache, cacheExpiry, cacheWrittenAt, anyWriteDone>>
    /\ WriteFrame

\* CancelSubscription: GetSubscription and the choice of cancelAt
\* (ledger.go:193-202).
CancelBegin(subId, immediately) ==
    /\ wrPc = "idle"
    /\ IF subId \notin DOMAIN subscriptions
       THEN /\ wrRet' = "ErrSubscriptionNotFound"
            /\ UNCHANGED <<wrPc, wrOp, entAfterWrite, entAfterCleanWrite, writeClean>>
       ELSE /\ wrPc' = "cancelStore"
            /\ wrOp' = [op |-> "cancel", sub |-> subId,
                        tenant |-> subscriptions[subId].tenant,
                        app |-> subscriptions[subId].app,
                        cancelAt |-> IF immediately THEN now
                                     ELSE subscriptions[subId].periodEnd,
                        immediately |-> immediately]
            /\ wrRet' = "none"
            /\ WriteBegins
    /\ UNCHANGED <<subscriptions, nextSubId, entitlementCache, cacheExpiry, cacheWrittenAt,
                   anyWriteDone>>
    /\ WriteFrame

\* Store.CancelSubscription (store.go:202-216), called at ledger.go:204: the
\* status changes only if the clock has passed cancelAt.
CancelStore ==
    /\ wrPc = "cancelStore"
    /\ subscriptions' =
          [subscriptions EXCEPT ![wrOp.sub] =
              IF now > wrOp.cancelAt
              THEN [@ EXCEPT !.cancelAt = wrOp.cancelAt, !.status = "canceled"]
              ELSE [@ EXCEPT !.cancelAt = wrOp.cancelAt]]
    /\ wrPc' = "invalidate"
    /\ UNCHANGED <<nextSubId, entitlementCache, cacheExpiry, cacheWrittenAt, wrOp, wrRet, anyWriteDone,
                   entAfterWrite, entAfterCleanWrite, writeClean>>
    /\ WriteFrame

\* The end of both writes: Invalidate, the emit, and the return
\* (ledger.go:175-179, 208-212).
WriteInvalidate ==
    /\ wrPc = "invalidate"
    /\ entitlementCache' = Invalidate(entitlementCache, wrOp.tenant, wrOp.app)
    /\ cacheExpiry' = Invalidate(cacheExpiry, wrOp.tenant, wrOp.app)
    /\ cacheWrittenAt' = Invalidate(cacheWrittenAt, wrOp.tenant, wrOp.app)
    /\ wrPc' = "idle"
    /\ wrRet' = "nil"
    /\ anyWriteDone' = TRUE
    /\ UNCHANGED <<subscriptions, nextSubId, wrOp, entAfterWrite, entAfterCleanWrite,
                   writeClean>>
    /\ WriteFrame

---------------------------------------------------------------------------
(* The entitlement specifications *)

FeatureTypes == {"metered", "seat", "boolean"}
Limits == {-1, 0, 2}
PeriodOf(type) == IF type = "metered" THEN "monthly" ELSE "none"

\* A plan with one feature.
OneFeaturePlan(f, ty, l, sl) ==
    [id |-> "p1", currency |-> "usd",
     features |-> <<[key |-> f, type |-> ty, limit |-> l, period |-> PeriodOf(ty),
                     softLimit |-> sl]>>,
     pricing |-> NoPricing]

\* The plans of the decision specification: the feature has every type,
\* limit and soft-limit flag.
EntPlans ==
    {OneFeaturePlan(f, ty, l, sl) :
        f \in FeatureKeys, ty \in FeatureTypes, l \in Limits, sl \in BOOLEAN}


\* The callers of these specifications create a plan id once; creating it
\* again is part of the registry specification.
CreatePlanOnce(p) == p.id \notin DOMAIN plans /\ CreatePlan(p)
CreatePlanEntCall == \E p \in EntPlans : CreatePlanOnce(p)
EntitledCall == \E f \in FeatureKeys, t \in Tenants, a \in Apps : EntitledStart(t, a, f)
SubscribeCall == \E t \in Tenants, a \in Apps : CreateSubscription(t, a, "p1", "active")
CancelCall ==
    \E i \in DOMAIN subscriptions, immediately \in BOOLEAN : CancelBegin(i, immediately)
UsageIngestCall ==
    \E t \in Tenants, a \in Apps, f \in FeatureKeys, q \in {q2 \in Quantities : q2 > 0} :
        StoreIngestBatch(<<UsageEvent(nextEventId, t, a, f, q, now, "")>>)

\* Decisions: every plan, an active subscription, usage, the evaluator.
NextEntitle ==
    \/ CreatePlanEntCall
    \/ SubscribeCall
    \/ WriteInvalidate
    \/ EntitledCall
    \/ EntGetSub
    \/ EntGetPlan
    \/ EntAggregate
    \/ EntSetCached
    \/ UsageIngestCall
    \/ Tick

SpecEntitle == Init /\ [][NextEntitle]_vars

\* C5: when Entitled evaluates a metered or seat feature on a cache miss, with
\* L the feature's limit in the plan and U the usage aggregated for the
\* feature's period, the decision carries used = U and limit = L and is:
\* allowed with remaining -1 if L = -1; otherwise, with remaining =
\* max(0, L - U): allowed without a reason if U < L, allowed with reason
\* "over soft limit" if the feature is soft-limited, and denied with reason
\* "quota exceeded" otherwise.
C5_MeteredDecisionTable ==
    [][(entPc = "aggregate" /\ entPc' = "setCached") =>
        LET f == plans[entPlanId].features[1]
            L == f.limit
            U == Aggregate(entCtx.tenant, entCtx.app, entCtx.feature, f.period)
            r == entRet'
            finite == IF L - U > 0 THEN L - U ELSE 0
        IN  /\ f.key = entCtx.feature
            /\ f.type \in {"metered", "seat"}
            /\ r.used = U
            /\ r.limit = L
            /\ r.feature = entCtx.feature
            /\ L = -1 => (r.allowed /\ r.remaining = -1)
            /\ (L # -1 /\ U < L) =>
                  (r.allowed /\ r.reason = "" /\ r.remaining = finite)
            /\ (L # -1 /\ U >= L /\ f.softLimit) =>
                  (r.allowed /\ r.reason = "over soft limit" /\ r.remaining = finite)
            /\ (L # -1 /\ U >= L /\ ~f.softLimit) =>
                  (~r.allowed /\ r.reason = "quota exceeded" /\ r.remaining = finite)]_vars

\* A hard-limited feature evaluated with usage exactly at its positive limit.
C5_Witness ==
    /\ entPc = "done"
    /\ entPath = "quota"
    /\ entRet.limit = 2
    /\ entRet.used = 2
    /\ entRet.reason = "quota exceeded"

\* C6: whenever Entitled has decided on a feature of the active
\* subscription's plan whose limit is -1, of whatever type, the decision is
\* allowed with remaining = -1.
C6_UnlimitedAlwaysAllowed ==
    (/\ entPc = "done"
     /\ entPath \in {"quota", "boolean", "cache"}
     /\ entRet.limit = -1)
    => (entRet.allowed /\ entRet.remaining = -1)

\* Cache coherence: one plan, subscription writes racing the evaluator.
CachePlan == OneFeaturePlan(<<"f">>, "seat", 2, FALSE)

NextCache ==
    \/ CreatePlanOnce(CachePlan)
    \/ SubscribeCall
    \/ CancelCall
    \/ CancelStore
    \/ WriteInvalidate
    \/ EntitledCall
    \/ EntGetSub
    \/ EntGetPlan
    \/ EntAggregate
    \/ EntSetCached
    \/ Tick

SpecCache == Init /\ [][NextCache]_vars

\* The decision of a finished Entitled call agrees with the subscriptions
\* now stored: it reports "no active subscription" exactly when the pair has
\* no active or trialing subscription.
ReflectsSubscriptions ==
    (entRet.reason = "no active subscription")
        <=> (ActiveSubscriptions(entCtx.tenant, entCtx.app) = {})

\* C4 as stated: an Entitled call that started after a subscription write
\* had returned (no write has begun since) yields a decision that reflects
\* the subscriptions as that write left them, under every interleaving.
C4_CoherentUnderEveryInterleaving ==
    (/\ entPc = "done"
     /\ entAfterWrite
     /\ ~entStoreFailed
     /\ entPath # "ctx")
    => ReflectsSubscriptions

\* C4, amended: the same, provided no Entitled call for the pair was past
\* its cache lookup and not yet returned at any moment of that write.
C4_CoherentAfterUncontendedWrite ==
    (/\ entPc = "done"
     /\ entAfterCleanWrite
     /\ ~entStoreFailed
     /\ entPath # "ctx")
    => ReflectsSubscriptions

\* An Entitled call after an uncontended cancellation found no active
\* subscription.
C4_Witness ==
    /\ entPc = "done"
    /\ entAfterCleanWrite
    /\ ~entStoreFailed
    /\ entPath = "sub"
    /\ \E i \in DOMAIN subscriptions : subscriptions[i].status = "canceled"

---------------------------------------------------------------------------
(* Money and invoice generation (types.Money, ledger.go GenerateInvoice) *)

\* Money.assertSameCurrency: the operands of Add and Subtract must carry the
\* same currency, or the call panics.
SameCurrency(m, other) == m.currency = other.currency

\* Money.Amount is an int64 (types.Money), whose arithmetic wraps around in
\* Go.  The model keeps the two's-complement behaviour at a width of
\* AmountBits bits.
AmountBits == 8
MinAmount == -(2 ^ (AmountBits - 1))
MaxAmount == 2 ^ (AmountBits - 1) - 1
Wrap(x) == ((x - MinAmount) % (2 ^ AmountBits)) + MinAmount

\* Integer addition that stops at the ends of the range instead of wrapping.
AddSaturating(m, other) ==
    [amount |-> Max2(MinAmount, Min({MaxAmount, m.amount + other.amount})),
     currency |-> m.currency]

\* Money.Add and Money.Subtract, where they do not panic.
Add(m, other) == [amount |-> Wrap(m.amount + other.amount), currency |-> m.currency]
Subtract(m, other) == [amount |-> Wrap(m.amount - other.amount), currency |-> m.currency]

\* strings.ToLower on the currency codes of the model.
ToLower(c) ==
    CASE c = "USD" -> "usd"
      [] c = "EUR" -> "eur"
      [] OTHER -> c

\* types.Zero: the zero amount in the lower-cased currency.
Zero(currency) == [amount |-> 0, currency |-> ToLower(currency)]

\* Money.Equal.
Equal(m, other) == m.amount = other.amount /\ m.currency = other.currency

\* Money.IsPositive.
IsPositive(m) == m.amount > 0

\* The base line item of GenerateInvoice (ledger.go:435-443).
BaseLineItem(p) ==
    [type |-> "base", feature |-> NoId, quantity |-> 1,
     unitAmount |-> [amount |-> p.pricing.amount, currency |-> p.pricing.currency],
     amount |-> [amount |-> p.pricing.amount, currency |-> p.pricing.currency]]

\* Whether GenerateInvoice notes an overage for a feature (ledger.go:450,
\* 455): only metered features are aggregated.
IsOverageAnyType(feature, used) == used > feature.limit /\ feature.limit > 0
IsOverage(feature, used) ==
    feature.type = "metered" /\ used > feature.limit /\ feature.limit > 0

\* The overage line items of GenerateInvoice (ledger.go:448-469), for the
\* features from index i on.
RECURSIVE OverageLineItems(_, _, _)
OverageLineItems(p, sub, i) ==
    IF i > Len(p.features) THEN <<>>
    ELSE LET feature == p.features[i]
             used == Aggregate(sub.tenant, sub.app, feature.key, feature.period)
             rest == OverageLineItems(p, sub, i + 1)
         IN  IF IsOverage(feature, used)
             THEN <<[type |-> "overage", feature |-> feature.key,
                     quantity |-> used - feature.limit,
                     unitAmount |-> Zero(p.currency),
                     amount |-> Zero(p.currency)]>> \o rest
             ELSE rest

HasMetered(p) == \E i \in DOMAIN p.features : p.features[i].type = "metered"

\* What GenerateInvoice emits after its CreateInvoice call (ledger.go:477-482).
InvoiceEventsAlways(ret) == <<[kind |-> "invoiceGenerated", count |-> 0]>>
InvoiceEvents(ret) ==
    IF ret = "nil" THEN <<[kind |-> "invoiceGenerated", count |-> 0]>> ELSE <<>>

\* The store calls of GenerateInvoice, any one of which the store may fail.
GenerateInvoiceStoreCalls == {"GetSubscription", "GetPlan", "Aggregate", "CreateInvoice"}

\* GenerateInvoice (ledger.go:411-484).
GenerateInvoice(subId) ==
    /\ giCalls < MaxInvoiceCalls
    /\ giCalls' = giCalls + 1
    /\ giSub' = subId
    /\ \E failAt \in GenerateInvoiceStoreCalls \cup {"none"} :
        IF failAt = "GetSubscription" \/ subId \notin DOMAIN subscriptions
        THEN /\ giRet' = "err"
             /\ giInv' = NoInvoice
             /\ giStoreFailed' = (failAt = "GetSubscription")
             /\ UNCHANGED invoices
        ELSE IF failAt = "GetPlan" \/ subscriptions[subId].plan \notin DOMAIN plans
        THEN /\ giRet' = "err"
             /\ giInv' = NoInvoice
             /\ giStoreFailed' = (failAt = "GetPlan")
             /\ UNCHANGED invoices
        ELSE LET sub == subscriptions[subId]
                 p == plans[sub.plan]
                 base == [amount |-> p.pricing.amount, currency |-> p.pricing.currency]
                 withBase == p.pricing.set /\ IsPositive(base)
                 inv0 == [NoInvoice EXCEPT !.sub = subId, !.status = "draft",
                                           !.currency = p.currency]
                 inv1 == IF withBase
                         THEN [inv0 EXCEPT !.lineItems = <<BaseLineItem(p)>>,
                                           !.subtotal = Add(inv0.subtotal, base)]
                         ELSE inv0
                 inv2 == [inv1 EXCEPT
                            !.lineItems = inv1.lineItems \o OverageLineItems(p, sub, 1)]
                 inv3 == [inv2 EXCEPT
                            !.total = Subtract(Add(inv2.subtotal, inv2.tax), inv2.discount)]
             IN  IF withBase /\ ~SameCurrency(inv0.subtotal, base)
                 THEN /\ giRet' = "panic"
                      /\ giInv' = NoInvoice
                      /\ giStoreFailed' = FALSE
                      /\ UNCHANGED invoices
                 ELSE IF failAt = "Aggregate" /\ HasMetered(p)
                 THEN /\ giRet' = "err"
                      /\ giInv' = NoInvoice
                      /\ giStoreFailed' = TRUE
                      /\ UNCHANGED invoices
                 ELSE IF ~SameCurrency(inv2.subtotal, inv2.tax)
                         \/ ~SameCurrency(inv2.subtotal, inv2.discount)
                 THEN /\ giRet' = "panic"
                      /\ giInv' = NoInvoice
                      /\ giStoreFailed' = FALSE
                      /\ UNCHANGED invoices
                 ELSE IF failAt = "CreateInvoice"
                 THEN /\ giRet' = "err"
                      /\ giInv' = NoInvoice
                      /\ giStoreFailed' = TRUE
                      /\ UNCHANGED invoices
                 ELSE /\ giRet' = "nil"
                      /\ giInv' = inv3
                      /\ giStoreFailed' = FALSE
                      /\ invoices' = Append(invoices, inv3)
    /\ emitLog' = emitLog \o InvoiceEvents(giRet')
    /\ UNCHANGED <<enginePc, meterBuffer, stopChan, workerPc, batch, nextEventId,
                   meterRet, meterCalls, accepted, acceptedAtStop, ingestLog,
                   storeClosed, usageVars, now, storeVars, entVars, wrVars, emitVars,
                   miCalls, miOp, miId, miRet, libVars>>

\* The plans of the invoice specification: one metered feature, and no
\* pricing, a zero base amount, or a positive base amount given in the plan's
\* currency or as a bare amount.
Pricings ==
    {NoPricing,
     [set |-> TRUE, amount |-> 0, currency |-> "usd"],
     [set |-> TRUE, amount |-> 49, currency |-> "usd"],
     [set |-> TRUE, amount |-> 49, currency |-> ""]}
InvoicePlans ==
    {[OneFeaturePlan(<<"f">>, "metered", 2, FALSE) EXCEPT !.pricing = pr] : pr \in Pricings}

CreatePlanInvoiceCall == \E p \in InvoicePlans : CreatePlanOnce(p)
GenerateInvoiceCall == \E subId \in 1..MaxSubs : GenerateInvoice(subId)

NextInvoice ==
    \/ CreatePlanInvoiceCall
    \/ SubscribeCall
    \/ WriteInvalidate
    \/ UsageIngestCall
    \/ GenerateInvoiceCall
    \/ Tick

SpecInvoice == Init /\ [][NextInvoice]_vars

\* The base amount of plan p as a Money in the plan's currency.
BaseInPlanCurrency(p) == [amount |-> p.pricing.amount, currency |-> p.currency]

\* C9: a GenerateInvoice call for a stored subscription whose stored plan has
\* pricing with a positive base amount (in the plan's currency), no store
\* call failing, returns a draft invoice with exactly one base line item, of
\* quantity 1 and unit amount = amount = the base amount, and a subtotal
\* equal to the base amount in the plan's currency, and has persisted it.
C9_BaseLineItemAndSubtotal ==
    [][(/\ giCalls' # giCalls
        /\ ~giStoreFailed'
        /\ giSub' \in DOMAIN subscriptions
        /\ subscriptions[giSub'].plan \in DOMAIN plans
        /\ plans[subscriptions[giSub'].plan].pricing.set
        /\ plans[subscriptions[giSub'].plan].pricing.amount > 0
        /\ plans[subscriptions[giSub'].plan].pricing.currency
              = plans[subscriptions[giSub'].plan].currency)
       => LET p == plans[subscriptions[giSub'].plan]
              baseItems == {i \in DOMAIN giInv'.lineItems :
                              giInv'.lineItems[i].type = "base"}
          IN  /\ giRet' = "nil"
              /\ giInv'.status = "draft"
              /\ Cardinality(baseItems) = 1
              /\ \A i \in baseItems :
                    /\ giInv'.lineItems[i].quantity = 1
                    /\ giInv'.lineItems[i].unitAmount = BaseInPlanCurrency(p)
                    /\ giInv'.lineItems[i].amount = BaseInPlanCurrency(p)
              /\ giInv'.subtotal = BaseInPlanCurrency(p)
              /\ invoices' = Append(invoices, giInv')]_vars

\* C10: every persisted invoice has total = subtotal + tax - discount, and
\* its subtotal, tax, discount and total carry the currency of the plan of
\* its subscription.
C10_TotalAndCurrency ==
    \A i \in DOMAIN invoices :
        LET inv == invoices[i]
            currency == plans[subscriptions[inv.sub].plan].currency
        IN  /\ inv.total.amount = inv.subtotal.amount + inv.tax.amount - inv.discount.amount
            /\ inv.subtotal.currency = currency
            /\ inv.tax.currency = currency
            /\ inv.discount.currency = currency
            /\ inv.total.currency = currency

---------------------------------------------------------------------------
(* Invoice status changes (store/memory/store.go) *)

\* What an invoice store call leaves alone.
InvoiceStoreFrame ==
    UNCHANGED <<meterVars, usageVars, now, storeVars, entVars, wrVars, emitVars,
                giCalls, giSub, giRet, giInv, giStoreFailed, libVars>>

\* Store.CreateInvoice (store.go:356-362).  Invoice ids are fresh, so the
\* invoice is a new entry.
StoreCreateInvoice(inv) ==
    /\ Len(invoices) < MaxInvoices
    /\ invoices' = Append(invoices, inv)
    /\ UNCHANGED <<miCalls, miOp, miId, miRet>>
    /\ InvoiceStoreFrame

\* Store.MarkInvoicePaid (store.go:423-434).
MarkInvoicePaid(invId, paidAt, paymentRef) ==
    /\ miCalls < MaxMarkCalls
    /\ miCalls' = miCalls + 1
    /\ miOp' = "paid"
    /\ miId' = invId
    /\ IF invId \in DOMAIN invoices
       THEN /\ invoices' = [invoices EXCEPT ![invId] =
                               [@ EXCEPT !.status = "paid", !.paidAt = paidAt,
                                         !.paymentRef = paymentRef]]
            /\ miRet' = "nil"
       ELSE /\ miRet' = "ErrInvoiceNotFound"
            /\ UNCHANGED invoices
    /\ InvoiceStoreFrame

\* Store.MarkInvoiceVoided (store.go:436-448).
MarkInvoiceVoided(invId, reason) ==
    /\ miCalls < MaxMarkCalls
    /\ miCalls' = miCalls + 1
    /\ miOp' = "voided"
    /\ miId' = invId
    /\ IF invId \in DOMAIN invoices
       THEN /\ invoices' = [invoices EXCEPT ![invId] =
                               [@ EXCEPT !.status = "voided", !.voidedAt = now,
                                         !.voidReason = reason]]
            /\ miRet' = "nil"
       ELSE /\ miRet' = "ErrInvoiceNotFound"
            /\ UNCHANGED invoices
    /\ InvoiceStoreFrame

InvoiceStatuses == {"draft", "pending", "past_due"}
NewInvoices ==
    {[NoInvoice EXCEPT !.sub = 1, !.status = st, !.currency = "usd",
                       !.subtotal = Zero("usd"), !.tax = Zero("usd"),
                       !.discount = Zero("usd"), !.total = Zero("usd")] :
        st \in InvoiceStatuses}

StoreCreateInvoiceCall == \E inv \in NewInvoices : StoreCreateInvoice(inv)
MarkInvoicePaidCall ==
    \E invId \in 1..MaxInvoices : MarkInvoicePaid(invId, now, "ref")
MarkInvoiceVoidedCall ==
    \E invId \in 1..MaxInvoices : MarkInvoiceVoided(invId, "reason")

NextInvoiceStore ==
    \/ StoreCreateInvoiceCall
    \/ MarkInvoicePaidCall
    \/ MarkInvoiceVoidedCall
    \/ Tick

SpecInvoiceStore == Init /\ [][NextInvoiceStore]_vars

\* C11: MarkInvoicePaid on a voided invoice returns ErrInvoiceVoided and
\* MarkInvoiceVoided on a paid invoice returns ErrInvoicePaid, the stored
\* invoices being unchanged in both cases; and no stored invoice goes from
\* paid to voided or from voided to paid in any step.
C11_InvoiceStatusGuards ==
    [][/\ (/\ miCalls' # miCalls
           /\ miOp' = "paid"
           /\ miId' \in DOMAIN invoices
           /\ invoices[miId'].status = "voided")
          => (miRet' = "ErrInvoiceVoided" /\ invoices' = invoices)
       /\ (/\ miCalls' # miCalls
           /\ miOp' = "voided"
           /\ miId' \in DOMAIN invoices
           /\ invoices[miId'].status = "paid")
          => (miRet' = "ErrInvoicePaid" /\ invoices' = invoices)
       /\ \A i \in DOMAIN invoices :
            /\ ~(invoices[i].status = "paid" /\ invoices'[i].status = "voided")
            /\ ~(invoices[i].status = "voided" /\ invoices'[i].status = "paid")]_vars

---------------------------------------------------------------------------
(* Entitled: failures, expiry, context, negative outcomes *)

\* C12: when a store call of Entitled (GetActiveSubscription, GetPlan or
\* Aggregate) fails for a reason of the store's own, the call returns an
\* error and no decision, and leaves the cache as it was.
C12_StoreFailurePropagated ==
    [][(entPc # "done" /\ entPc' = "done" /\ entStoreFailed')
        => /\ entErr' # "nil"
           /\ entRet' = NoResult
           /\ entitlementCache' = entitlementCache
           /\ cacheExpiry' = cacheExpiry]_vars

\* C13: a cache entry written at time t with time-to-live CacheTTL is not
\* returned by GetCached at any time >= t + CacheTTL, so an Entitled call
\* made then goes on to the store.
C13_ExpiredEntryNotReturned ==
    \A key \in DOMAIN cacheWrittenAt :
        now >= cacheWrittenAt[key] + CacheTTL => ~CacheHit(key)

\* An Entitled call is re-evaluating while the entry of its key, written
\* CacheTTL or more ago, is still stored.
C13_Witness ==
    /\ entPc = "getSub"
    /\ entStoreCalls = <<"GetCached">>
    /\ CacheKey(entCtx.tenant, entCtx.app, entCtx.feature) \in DOMAIN entitlementCache
    /\ now >= cacheWrittenAt[CacheKey(entCtx.tenant, entCtx.app, entCtx.feature)] + CacheTTL

\* Callers with and without a tenant and an app: Meter and Entitled.
EntitledAnyCtxCall ==
    \E f \in FeatureKeys, t \in CtxTenants, a \in CtxApps : EntitledStart(t, a, f)

NextContext ==
    \/ MeterCall
    \/ CreatePlanOnce(CachePlan)
    \/ SubscribeCall
    \/ WriteInvalidate
    \/ EntitledAnyCtxCall
    \/ EntGetSub
    \/ EntGetPlan
    \/ EntAggregate
    \/ EntSetCached

SpecContext == Init /\ [][NextContext]_vars

\* C14: an Entitled call whose context lacks the tenant or the app returns
\* the decision {allowed: false, reason: "missing tenant or app context"}
\* and a nil error, having called no store method and emitted no event; a
\* Meter call whose context lacks one returns ErrInvalidInput and leaves the
\* buffer as it was.
C14_MissingContext ==
    [][/\ (entPc' = "done" /\ (entCtx'.tenant = <<>> \/ entCtx'.app = <<>>))
          => /\ entRet' = [allowed |-> FALSE, feature |-> entCtx'.feature, used |-> 0,
                           limit |-> 0, remaining |-> 0, softLimit |-> FALSE,
                           reason |-> "missing tenant or app context"]
             /\ entErr' = "nil"
             /\ entStoreCalls' = <<>>
             /\ entEmits' = <<>>
       /\ (meterCalls' # meterCalls /\ (meterRet'.tenant = <<>> \/ meterRet'.app = <<>>))
          => /\ meterRet'.ret = "ErrInvalidInput"
             /\ meterBuffer' = meterBuffer
             /\ accepted' = accepted]_vars

\* Both calls were made without a full context, with an event already in
\* the buffer and a subscription in the store.
C14_Witness ==
    /\ entPc = "done"
    /\ entPath = "ctx"
    /\ meterRet.ret = "ErrInvalidInput"
    /\ Len(meterBuffer) > 0
    /\ subscriptions # EmptyMap

\* Callers asking for a feature of the plan and for one that is not in it.
RequestKeys == FeatureKeys \cup {<<"g">>}
EntitledKeysCall ==
    \E f \in RequestKeys, t \in Tenants, a \in Apps : EntitledStart(t, a, f)

NextNegative ==
    \/ CreatePlanOnce(CachePlan)
    \/ SubscribeCall
    \/ WriteInvalidate
    \/ EntitledKeysCall
    \/ EntGetSub
    \/ EntGetPlan
    \/ EntAggregate
    \/ EntSetCached
    \/ Tick

SpecNegative == Init /\ [][NextNegative]_vars

NegativeReasons == {"no active subscription", "plan not found", "feature not in plan"}

\* C15: the step in which Entitled answers "no active subscription", "plan
\* not found" or "feature not in plan" leaves the cache as it was; and an
\* Entitled call made after a later CreateSubscription has returned does not
\* answer "no active subscription" while the pair has an active subscription.
C15_NegativeOutcomesNotCached ==
    [][/\ (entPc # "done" /\ entPc' = "done" /\ entRet'.reason \in NegativeReasons)
          => /\ entitlementCache' = entitlementCache
             /\ cacheExpiry' = cacheExpiry
             /\ "SetCached" \notin SeqToSet(entStoreCalls')
       /\ (/\ entPc' = "done"
           /\ entAfterCleanWrite'
           /\ ~entStoreFailed'
           /\ \E i \in DOMAIN subscriptions' :
                 /\ subscriptions'[i].tenant = entCtx'.tenant
                 /\ subscriptions'[i].app = entCtx'.app
                 /\ subscriptions'[i].status \in {"active", "trialing"})
          => entRet'.reason # "no active subscription"]_vars

\* Entitled has answered "feature not in plan" for a subscribed pair and the
\* cache holds nothing.
C15_Witness ==
    /\ entPc = "done"
    /\ entPath = "feature"
    /\ entRet.reason = "feature not in plan"
    /\ entitlementCache = EmptyMap
    /\ ActiveSubscriptions(entCtx.tenant, entCtx.app) # {}

---------------------------------------------------------------------------
(* Usage seen by Entitled *)

\* The stored events of a key stamped after an instant, and the sum of the
\* quantities of a set of stored events, written without the store's loop.
StoredAfter(t, a, f, start) ==
    {i \in DOMAIN usageEvents :
        /\ usageEvents[i].tenant = t
        /\ usageEvents[i].app = a
        /\ usageEvents[i].feature = f
        /\ usageEvents[i].timestamp > start}

RECURSIVE QuantitySum(_)
QuantitySum(I) ==
    IF I = {} THEN 0
    ELSE LET i == CHOOSE j \in I : TRUE
         IN  usageEvents[i].quantity + QuantitySum(I \ {i})

\* The start of the current window of a feature period, from the calendar.
WindowStart(period) ==
    CASE period = "monthly" -> CHOOSE s \in 0..now :
                                   s % MonthLen = 0 /\ s <= now /\ now < s + MonthLen
      [] period = "yearly" -> CHOOSE s \in 0..now :
                                   /\ s % (MonthsPerYear * MonthLen) = 0
                                   /\ s <= now /\ now < s + MonthsPerYear * MonthLen
      [] OTHER -> 0

StoredUsage(t, a, f, period) == QuantitySum(StoredAfter(t, a, f, WindowStart(period)))

\* The used and remaining figures of a decision agree with the store.
AgreesWithStore(r, feature) ==
    LET U == StoredUsage(entCtx'.tenant, entCtx'.app, entCtx'.feature, feature.period)
    IN  /\ r.used = U
        /\ feature.limit # -1 =>
              r.remaining = (IF feature.limit - U > 0 THEN feature.limit - U ELSE 0)

\* The step in which Entitled evaluates a quota from the store.
EvaluatesFromStore == entPc = "aggregate" /\ entPc' = "setCached"

\* The step in which Entitled answers a quota feature from the cache.
AnswersFromCache ==
    /\ entPc' = "done"
    /\ entPath' = "cache"
    /\ entStoreCalls' = <<"GetCached">>
    /\ UNCHANGED <<usageVars, now, storeVars, wrPc>>
    /\ "p1" \in DOMAIN plans
    /\ plans["p1"].features[1].key = entCtx'.feature
    /\ plans["p1"].features[1].type \in {"metered", "seat"}

\* C16 as stated: whatever was flushed to the store before an Entitled call
\* is in the used and remaining it reports, whether the call evaluates the
\* quota or answers from an entry an earlier call left in the cache.
C16_FlushedUsageAlwaysReported ==
    [][/\ EvaluatesFromStore => AgreesWithStore(entRet', entFeature)
       /\ AnswersFromCache => AgreesWithStore(entRet', plans["p1"].features[1])]_vars

\* C16: an Entitled call that finds no unexpired cache entry for its key
\* reports used and remaining computed from every event of the key stored in
\* the current period when it aggregates; a call that finds one returns the
\* stored decision as it is and makes no other store call.
C16_FlushedUsageReportedOnMiss ==
    [][/\ EvaluatesFromStore =>
            /\ AgreesWithStore(entRet', entFeature)
            /\ ~CacheHit(CacheKey(entCtx.tenant, entCtx.app, entCtx.feature))
       /\ AnswersFromCache =>
            entRet' = entitlementCache[CacheKey(entCtx'.tenant, entCtx'.app, entCtx'.feature)]]_vars

\* An evaluation reports usage that was stored after the answer still in the
\* cache, expired by now, was computed.
C16_Witness ==
    LET key == CacheKey(entCtx.tenant, entCtx.app, entCtx.feature)
    IN  /\ entPc = "setCached"
        /\ entPath = "quota"
        /\ entRet.used = 2
        /\ key \in DOMAIN entitlementCache
        /\ entitlementCache[key].used = 0
        /\ now >= cacheExpiry[key]

---------------------------------------------------------------------------
(* Quota events *)

\* How many times the current Entitled call has emitted onQuotaExceeded.
QuotaExceededEmitted ==
    Cardinality({i \in DOMAIN entEmits : entEmits[i] = "quotaExceeded"})

\* C17: an Entitled call that has returned emitted onQuotaExceeded once if
\* it missed the cache and denied with "quota exceeded", and not at all if
\* it allowed (with or without "over soft limit"), answered from the cache,
\* or ended any other way.
C17_QuotaExceededOncePerMissDenial ==
    entPc = "done" =>
        IF entPath = "quota" /\ ~entRet.allowed /\ entRet.reason = "quota exceeded"
        THEN QuotaExceededEmitted = 1
        ELSE QuotaExceededEmitted = 0

\* A hard-limit denial evaluated from the store, then the same denial
\* answered from the cache.
C17_Witness ==
    /\ entPc = "done"
    /\ entPath = "quota"
    /\ entRet.reason = "quota exceeded"
    /\ entEmits = <<"quotaExceeded", "entitlementChecked">>

C17_WitnessCached ==
    /\ entPc = "done"
    /\ entPath = "cache"
    /\ entRet.reason = "quota exceeded"
    /\ entEmits = <<>>

---------------------------------------------------------------------------
(* Aggregation windows *)

\* Events of several tenants, apps and features, stamped by the caller with
\* the current instant or left at the zero time, stored over more than a year.
AggTenants == Tenants \cup {<<"u">>}
AggApps == Apps \cup {<<"b">>}
Periods == {"monthly", "yearly", "none"}
YearLen == MonthsPerYear * MonthLen
MaxAggTime == YearLen + MonthLen

AggIngestCall ==
    \E k \in {<<t, a, f>> \in AggTenants \X AggApps \X RequestKeys :
                  Cardinality({x \in {t, a, f} : x \in {<<"u">>, <<"b">>, <<"g">>}}) <= 1},
       q \in {q2 \in Quantities : q2 > 0}, ts \in {ZeroTime, now} :
        StoreIngestBatch(<<UsageEvent(nextEventId, k[1], k[2], k[3], q, ts, "")>>)

\* Time passes: to the next instant or to the first instant of the next year.
AggTick ==
    /\ \E next \in {now + 1, ((now \div YearLen) + 1) * YearLen} :
          /\ next <= MaxAggTime
          /\ now' = next
    /\ UNCHANGED <<meterVars, usageVars, restVars>>

NextAggregate ==
    \/ AggIngestCall
    \/ AggTick

SpecAggregate == Init /\ [][NextAggregate]_vars

\* The reorderings of the stored events.
Reorderings ==
    LET n == Len(usageEvents)
    IN  {[i \in 1..n |-> usageEvents[p[i]]] :
            p \in {q \in [1..n -> 1..n] : \A i, j \in 1..n : q[i] = q[j] => i = j}}

\* C18: for every tenant, app, feature and period, Aggregate is the sum of
\* the quantities of exactly the stored events of that tenant, app and
\* feature stamped strictly after the first instant of the current month,
\* of the current year, or the zero time; an event stamped at that instant
\* is left out; and the sum is the same for every order of the stored events.
C18_AggregateIsWindowSum ==
    \A t \in AggTenants, a \in AggApps, f \in RequestKeys, period \in Periods :
        /\ Aggregate(t, a, f, period) = StoredUsage(t, a, f, period)
        /\ \A i \in DOMAIN usageEvents :
              usageEvents[i].timestamp = WindowStart(period)
                 => i \notin StoredAfter(t, a, f, StartOfPeriod(now, period))
        /\ \A events \in Reorderings :
              SumMatching(events, t, a, f, StartOfPeriod(now, period))
                 = Aggregate(t, a, f, period)

\* An event stamped at the first instant of the second year is left out of
\* the yearly and the monthly sum and is in the all-time sum; the event
\* stored before it is in none but the all-time sum.
C18_Witness ==
    /\ now > YearLen
    /\ Len(usageEvents) = 2
    /\ usageEvents[1].timestamp \in 1..(YearLen - 1)
    /\ usageEvents[2].timestamp = YearLen
    /\ usageEvents[1].quantity = 2
    /\ usageEvents[2].quantity = 2
    /\ \A i \in 1..2 : /\ usageEvents[i].tenant = <<"t">>
                       /\ usageEvents[i].app = <<"a">>
                       /\ usageEvents[i].feature = <<"f">>
    /\ Aggregate(<<"t">>, <<"a">>, <<"f">>, "yearly") = 0
    /\ Aggregate(<<"t">>, <<"a">>, <<"f">>, "monthly") = 0
    /\ Aggregate(<<"t">>, <<"a">>, <<"f">>, "none") = 4

\* An event stamped at the first instant of the current month, not the first
\* of the year, is left out of the monthly sum and is in the yearly sum.
C18_WitnessMonth ==
    /\ Len(usageEvents) = 2
    /\ usageEvents[1].timestamp = StartOfPeriod(now, "monthly")
    /\ usageEvents[1].timestamp > 0
    /\ usageEvents[2].timestamp > usageEvents[1].timestamp
    /\ \A i \in 1..2 : /\ usageEvents[i].tenant = <<"t">>
                       /\ usageEvents[i].app = <<"a">>
                       /\ usageEvents[i].feature = <<"f">>
                       /\ usageEvents[i].quantity = 2
    /\ Aggregate(<<"t">>, <<"a">>, <<"f">>, "monthly") = 2
    /\ Aggregate(<<"t">>, <<"a">>, <<"f">>, "yearly") = 4

---------------------------------------------------------------------------
(* The flush worker's batches *)

\* C19: after every step of the worker its pending batch holds fewer than
\* MeterBatchSize events, and every batch the pipeline has passed to
\* IngestBatch holds at least one and at most MeterBatchSize events.
C19_BatchBounded ==
    /\ Len(batch) < MeterBatchSize
    /\ \A i \in DOMAIN ingestLog :
          /\ Len(ingestLog[i].events) >= 1
          /\ Len(ingestLog[i].events) <= MeterBatchSize

\* The worker has flushed a batch of the full size on receipt and a smaller
\* one on a tick, and holds an event again.
C19_Witness ==
    /\ workerPc = "running"
    /\ Len(batch) = MeterBatchSize - 1
    /\ \E i, j \in DOMAIN ingestLog :
          /\ Len(ingestLog[i].events) = MeterBatchSize
          /\ Len(ingestLog[j].events) = MeterBatchSize - 1

\* The worker goroutine is scheduled and the ticker keeps firing: a receive
\* that stays possible, and a tick with a batch to flush, are taken.
FairSpecMeter ==
    SpecMeter /\ WF_vars(WorkerRecv) /\ WF_vars(WorkerTick)

\* C20: while the engine stays started, every event for which Meter
\* returned nil is eventually in a batch passed to IngestBatch (or the
\* engine leaves the started state).
C20_AcceptedEventuallyIngested ==
    \A id \in 1..MaxMeterCalls :
        (id \in accepted /\ enginePc = "started")
            ~> (id \in IngestedIds \/ enginePc # "started")

\* In a started engine every accepted event has been passed to IngestBatch,
\* the last of them alone in a batch flushed on a tick.
C20_Witness ==
    /\ enginePc = "started"
    /\ accepted # {}
    /\ accepted \subseteq IngestedIds
    /\ meterBuffer = <<>>
    /\ batch = <<>>
    /\ ingestLog # <<>>
    /\ Len(ingestLog[Len(ingestLog)].events) < MeterBatchSize

---------------------------------------------------------------------------
(* Failed flushes, flush events, order *)

\* The events of the flushes that failed.
FailedIds ==
    UNION {Ids(ingestLog[i].events) : i \in {j \in DOMAIN ingestLog : ~ingestLog[j].ok}}

\* C21: a batch whose IngestBatch call failed is gone: none of its events is
\* in another IngestBatch call, in the store, in the worker's batch or back in
\* the channel; the step of the failed call stores nothing and leaves the
\* worker, unless this was its final flush, running with an empty batch.
C21_FailedBatchDiscarded ==
    [][/\ \A i, j \in DOMAIN ingestLog' :
            i # j => Ids(ingestLog'[i].events) \cap Ids(ingestLog'[j].events) = {}
       /\ \A i \in DOMAIN ingestLog' :
            ~ingestLog'[i].ok =>
                /\ Ids(ingestLog'[i].events) \cap Ids(usageEvents') = {}
                /\ workerPc' = "running" => Ids(ingestLog'[i].events) \cap Ids(batch') = {}
                /\ Ids(ingestLog'[i].events) \cap Ids(meterBuffer') = {}
       /\ (Len(ingestLog') > Len(ingestLog) /\ ~ingestLog'[Len(ingestLog')].ok) =>
            /\ usageEvents' = usageEvents
            /\ ~stopChan => workerPc' = "running"
            /\ workerPc' = "running" => batch' = <<>>]_vars

\* A flush failed, the worker went on, and a later flush stored its events.
C21_Witness ==
    /\ Len(ingestLog) = 2
    /\ ~ingestLog[1].ok
    /\ ingestLog[2].ok
    /\ Ids(ingestLog[2].events) \subseteq Ids(usageEvents)
    /\ workerPc = "running"
    /\ Len(batch) = 1

\* The onUsageFlushed events emitted so far and the IngestBatch calls that
\* succeeded so far, both in order.
UsageFlushedEvents == SelectSeq(emitLog, LAMBDA e : e.kind = "usageFlushed")
SucceededFlushes == SelectSeq(ingestLog, LAMBDA c : c.ok)

\* C22: the onUsageFlushed events are, in order, one per IngestBatch call
\* that succeeded, each with the number of events of its batch as count; a
\* failed call has none, and the event is emitted in the step of its call.
C22_UsageFlushedPerSuccess ==
    [][/\ Len(UsageFlushedEvents') = Len(SucceededFlushes')
       /\ \A i \in DOMAIN UsageFlushedEvents' :
            UsageFlushedEvents'[i].count = Len(SucceededFlushes'[i].events)
       /\ (Len(ingestLog') > Len(ingestLog) /\ ~ingestLog'[Len(ingestLog')].ok)
            => emitLog' = emitLog]_vars

\* A flush of one event failed; flushes of two events and of one succeeded.
C22_Witness ==
    /\ Len(ingestLog) = 3
    /\ \E i \in 1..3 : ~ingestLog[i].ok
    /\ Len(UsageFlushedEvents) = 2
    /\ {UsageFlushedEvents[1].count, UsageFlushedEvents[2].count} = {1, MeterBatchSize}

\* The events passed to IngestBatch so far, call after call, and within a
\* call in the order of the batch.
RECURSIVE FlushedInOrder(_)
FlushedInOrder(log) ==
    IF log = <<>> THEN <<>> ELSE Head(log).events \o FlushedInOrder(Tail(log))

\* Meter numbers the events in the order in which it enqueues them.
InEnqueueOrder(events) ==
    \A i, j \in DOMAIN events : i < j => events[i].id < events[j].id

\* C23: the events flushed so far, read call by call and within each call
\* in batch order, followed by the worker's batch and the channel, are in the
\* order in which Meter enqueued them.
C23_FlushedFifo ==
    /\ InEnqueueOrder(FlushedInOrder(ingestLog))
    /\ workerPc = "running" =>
          InEnqueueOrder(FlushedInOrder(ingestLog) \o batch \o meterBuffer)

\* A full batch and then a later one have been flushed.
C23_Witness ==
    /\ Len(ingestLog) = 2
    /\ Len(ingestLog[1].events) = MeterBatchSize
    /\ Len(ingestLog[2].events) = MeterBatchSize
    /\ ingestLog[1].events[MeterBatchSize].id < ingestLog[2].events[1].id

---------------------------------------------------------------------------
(* Start and Stop, statement by statement *)

LifecycleFrame ==
    UNCHANGED <<meterBuffer, batch, nextEventId, meterRet, meterCalls, accepted,
                ingestLog, usageVars, now, restVars>>

\* Ledger.Start: l.store.Migrate(ctx) and the return of its error
\* (ledger.go:94-96).
StartMigrate ==
    /\ enginePc = "new"
    /\ \E migrateOk \in BOOLEAN :
          enginePc' = IF migrateOk THEN "migrated" ELSE "startFailed"
    /\ UNCHANGED <<stopChan, workerPc, acceptedAtStop, emitLog, storeClosed>>
    /\ LifecycleFrame

StartEmitInitAfterFailure ==
    /\ enginePc \in {"migrated", "startFailed"}
    /\ \A i \in DOMAIN emitLog : emitLog[i].kind # "init"
    /\ enginePc' = IF enginePc = "migrated" THEN "initEmitted" ELSE enginePc
    /\ emitLog' = Append(emitLog, [kind |-> "init", count |-> 0])
    /\ UNCHANGED <<stopChan, workerPc, acceptedAtStop, storeClosed>>
    /\ LifecycleFrame

\* Ledger.Start: l.plugins.EmitInit(ctx, l) (ledger.go:99).
StartEmitInit ==
    /\ enginePc = "migrated"
    /\ enginePc' = "initEmitted"
    /\ emitLog' = Append(emitLog, [kind |-> "init", count |-> 0])
    /\ UNCHANGED <<stopChan, workerPc, acceptedAtStop, storeClosed>>
    /\ LifecycleFrame

\* Ledger.Start: l.wg.Add(1); go l.meterFlushWorker(ctx); return nil
\* (ledger.go:102-111).
StartLaunchWorker ==
    /\ enginePc = "initEmitted"
    /\ enginePc' = "started"
    /\ workerPc' = "running"
    /\ UNCHANGED <<stopChan, acceptedAtStop, emitLog, storeClosed>>
    /\ LifecycleFrame

StopEmitShutdownWithoutWait ==
    /\ enginePc = "stopWait"
    /\ enginePc' = "shutdownEmitted"
    /\ emitLog' = Append(emitLog, [kind |-> "shutdown", count |-> 0])
    /\ UNCHANGED <<stopChan, workerPc, acceptedAtStop, storeClosed>>
    /\ LifecycleFrame

\* Ledger.Stop: l.wg.Wait() returns once the worker has called wg.Done(),
\* then l.plugins.EmitShutdown(ctx) (ledger.go:117-120).
StopEmitShutdown ==
    /\ enginePc = "stopWait"
    /\ workerPc = "done"
    /\ enginePc' = "shutdownEmitted"
    /\ emitLog' = Append(emitLog, [kind |-> "shutdown", count |-> 0])
    /\ UNCHANGED <<stopChan, workerPc, acceptedAtStop, storeClosed>>
    /\ LifecycleFrame

\* Ledger.Stop: return l.store.Close() (ledger.go:122).
StopClose ==
    /\ enginePc = "shutdownEmitted"
    /\ enginePc' = "stopped"
    /\ storeClosed' = TRUE
    /\ UNCHANGED <<stopChan, workerPc, acceptedAtStop, emitLog>>
    /\ LifecycleFrame

\* Start, then Stop once Start has returned, with Meter callers and the
\* worker running alongside.
NextLifecycle ==
    \/ MeterCall
    \/ StartMigrate
    \/ StartEmitInit
    \/ StartLaunchWorker
    \/ StopBegin
    \/ StopEmitShutdown
    \/ StopClose
    \/ WorkerStop
    \/ WorkerRecv
    \/ WorkerTick

SpecLifecycle == Init /\ [][NextLifecycle]_vars

EmittedKinds == {emitLog[i].kind : i \in DOMAIN emitLog}

\* C24: the worker is launched only after init has been emitted, and init is
\* emitted only after the migration has succeeded; a Start whose migration
\* failed has returned the error with no init emitted and no worker launched.
C24_StartInOrder ==
    /\ workerPc # "none" => "init" \in EmittedKinds
    /\ "init" \in EmittedKinds => enginePc \notin {"new", "migrated", "startFailed"}
    /\ enginePc = "startFailed" =>
          /\ workerPc = "none"
          /\ "init" \notin EmittedKinds
          /\ ingestLog = <<>>
    /\ enginePc \in {"new", "migrated", "initEmitted"} => workerPc = "none"

\* Start has returned nil and the worker it launched has flushed a batch.
C24_Witness ==
    /\ enginePc = "started"
    /\ workerPc = "running"
    /\ emitLog[1].kind = "init"
    /\ Len(ingestLog) > 0

\* Start has returned the migration error, with callers' events in the channel.
C24_WitnessFailed ==
    /\ enginePc = "startFailed"
    /\ Len(meterBuffer) > 0

\* C25: shutdown is emitted only once the worker has exited, its final flush
\* done; the store is closed only after shutdown has been emitted; and no
\* IngestBatch call is made once the store is closed.
C25_StopInOrder ==
    [][/\ "shutdown" \in EmittedKinds' => workerPc' = "done"
       /\ storeClosed' => "shutdown" \in EmittedKinds'
       /\ storeClosed => ingestLog' = ingestLog
       /\ ("shutdown" \in EmittedKinds' /\ "shutdown" \notin EmittedKinds)
            => (ingestLog' = ingestLog /\ ~storeClosed')]_vars

\* Stop has returned after a final flush of the worker's batch.
C25_Witness ==
    /\ enginePc = "stopped"
    /\ storeClosed
    /\ workerPc = "done"
    /\ Len(ingestLog) > 0
    /\ ingestLog[Len(ingestLog)].events = batch
    /\ emitLog[Len(emitLog)].kind = "shutdown"

---------------------------------------------------------------------------
(* Registry: duplicate registration *)

\* Plugins that also carry named roles: a pricing strategy, a usage
\* aggregator, an invoice formatter, each under a name or absent.
RoleNames == {"", "x", "y"}
RolePlugins ==
    [name : PluginNames, hooks : Capabilities, does : {"nil"},
     roles : [Roles -> RoleNames]]

RegisterRoleCall == \E pl \in RolePlugins : Register(pl)

NextRegistry == RegisterRoleCall

SpecRegistry == Init /\ [][NextRegistry]_vars

RegisteredNames == {regPlugins[i].name : i \in DOMAIN regPlugins}

\* C26: a Register call for a name the registry already holds returns the
\* duplicate-registration error and leaves r.plugins, every per-kind list
\* and every role map as they were; a call for a new name returns nil and
\* appends the plugin; so the names in r.plugins are pairwise distinct.
C26_DuplicateRegisterRejected ==
    [][/\ (regRet' # regRet \/ regPlugins' # regPlugins) =>
            IF regRet'.name \in RegisteredNames
            THEN /\ regRet'.ret = "duplicate registration"
                 /\ UNCHANGED <<regPlugins, regOn, regRoles>>
            ELSE /\ regRet'.ret = "nil"
                 /\ Len(regPlugins') = Len(regPlugins) + 1
                 /\ regPlugins'[Len(regPlugins')].name = regRet'.name
       /\ \A i, j \in DOMAIN regPlugins' :
            regPlugins'[i].name = regPlugins'[j].name => i = j]_vars

\* A second plugin of the same name, bringing other roles, was rejected.
C26_Witness ==
    /\ regRet.ret = "duplicate registration"
    /\ Len(regPlugins) = 1
    /\ regPlugins[1].name = regRet.name
    /\ regPlugins[1].roles["pricingStrategy"] = "x"
    /\ regRoles["pricingStrategy"] = [k \in {"x"} |-> regRet.name]
    /\ regRoles["invoiceFormatter"] = EmptyMap

---------------------------------------------------------------------------
(* Registry: cancellation and concurrent registration *)

\* CreatePlan called with a context that is not cancelled yet, so that a
\* cancelled context during an Emit call was cancelled while it dispatched.
CreatePlanLiveCtxCall == ~ctxDone /\ CreatePlanEmitCall

NextCancel ==
    \/ RegisterCall
    \/ CreatePlanLiveCtxCall
    \/ EmitStartHandler
    \/ HandlerReturns
    \/ HandlerPanics
    \/ EmitSelect
    \/ CancelCtx

SpecCancel == Init /\ [][NextCancel]_vars

\* C27: once the caller's context has been cancelled during an Emit call,
\* that call starts no further handler; the handlers it had started keep
\* their state until they return by themselves.
C27_CancelAbortsFanOut ==
    [][(ctxDone /\ cpPc = "emit") =>
          /\ started' = started
          /\ \A i \in DOMAIN handlerState :
                handlerState'[i] # handlerState[i] => handlerState[i] = "running"]_vars

\* C28: whatever Register calls interleave with it, an Emit call walks the
\* observers that were registered for its kind when it began, in
\* registration order: the handlers it has started are a prefix of that list
\* without repetition, the whole list once it has returned, and the list is
\* a prefix of the observers registered by now.
C28_EmitSeesRegisteredPrefix ==
    [][/\ (plans' # plans /\ cpStoreOk')
            => emitList' = RegisteredFor("planCreated")
       /\ (cpPc = "emit" /\ cpPc' = "emit") => emitList' = emitList
       /\ (cpPc' \in {"emit", "done"} /\ cpStoreOk') =>
            /\ IsPrefix(started', emitList')
            /\ \A i, j \in DOMAIN started' : started'[i] = started'[j] => i = j
            /\ \A i \in DOMAIN emitList' :
                  \E j \in DOMAIN regPlugins' :
                     /\ regPlugins'[j].name = emitList'[i]
                     /\ "planCreated" \in regPlugins'[j].hooks
                     /\ \A i2 \in DOMAIN emitList', j2 \in DOMAIN regPlugins' :
                           (i2 < i /\ regPlugins'[j2].name = emitList'[i2]) => j2 < j
            /\ cpPc' = "done" => started' = emitList']_vars

\* An observer was registered while an Emit call was under way: the call
\* has started the observer registered before it began and not the new one.
C28_Witness ==
    /\ cpPc = "emit"
    /\ emitWaiting
    /\ cpStoreOk
    /\ emitList = <<"A">>
    /\ started = <<"A">>
    /\ regOn["planCreated"] = <<"A", "B">>
    /\ regRet = [name |-> "B", ret |-> "nil"]
    /\ DOMAIN plans = {"p1"}

---------------------------------------------------------------------------
(* GenerateInvoice: failures and overage items *)

InvoiceGeneratedEvents == SelectSeq(emitLog, LAMBDA e : e.kind = "invoiceGenerated")

\* C29: a GenerateInvoice call in which a store call failed, or whose
\* subscription or plan does not exist, returns an error, stores no invoice
\* and emits nothing; every call that does not return nil leaves the stored
\* invoices and the emitted events as they were; a call that returns nil
\* has stored exactly the invoice it returns and emitted onInvoiceGenerated
\* once, so there are never more such events than stored invoices.
C29_GenerateInvoiceAllOrNothing ==
    [][giCalls' # giCalls =>
         /\ (\/ giStoreFailed'
             \/ giSub' \notin DOMAIN subscriptions
             \/ subscriptions[giSub'].plan \notin DOMAIN plans) => giRet' = "err"
         /\ giRet' # "nil" =>
               /\ invoices' = invoices
               /\ emitLog' = emitLog
               /\ giInv' = NoInvoice
         /\ giRet' = "nil" =>
               /\ invoices' = Append(invoices, giInv')
               /\ Len(emitLog') = Len(emitLog) + 1
               /\ emitLog'[Len(emitLog')].kind = "invoiceGenerated"
         /\ Len(InvoiceGeneratedEvents') = Len(invoices')]_vars

\* A call failed in the store after an earlier call had stored an invoice
\* and emitted its event.
C29_Witness ==
    /\ giCalls = 2
    /\ giRet = "err"
    /\ giStoreFailed
    /\ Len(invoices) = 1
    /\ Len(InvoiceGeneratedEvents) = 1
    /\ giSub \in DOMAIN subscriptions
    /\ subscriptions[giSub].plan \in DOMAIN plans

\* Plans with two features: "f" of every type and limit, and "g" metered
\* with a positive limit; no pricing, or a base amount without a currency
\* (the one positive base amount GenerateInvoice gets past, see C9).
OveragePlans ==
    {[id |-> "p1", currency |-> "usd",
      features |-> <<[key |-> <<"f">>, type |-> ty, limit |-> l,
                      period |-> PeriodOf(ty), softLimit |-> FALSE],
                     [key |-> <<"g">>, type |-> "metered", limit |-> 2,
                      period |-> "monthly", softLimit |-> FALSE]>>,
      pricing |-> pr] :
        ty \in FeatureTypes, l \in Limits,
        pr \in {NoPricing, [set |-> TRUE, amount |-> 49, currency |-> ""]}}

CreatePlanOverageCall == \E p \in OveragePlans : CreatePlanOnce(p)

\* Usage of either feature, one event reaching the limit of 2 or passing it.
OverageQuantities == {q \in Quantities : q > 0} \cup {3}
OverageIngestCall ==
    \E t \in Tenants, a \in Apps, f \in RequestKeys, q \in OverageQuantities :
        StoreIngestBatch(<<UsageEvent(nextEventId, t, a, f, q, now, "")>>)

\* Usage and invoices within one period (the windows are the subject of C18).
NextOverage ==
    \/ CreatePlanOverageCall
    \/ SubscribeCall
    \/ WriteInvalidate
    \/ OverageIngestCall
    \/ GenerateInvoiceCall

SpecOverage == Init /\ [][NextOverage]_vars

C30_WitnessBoth ==
    /\ giRet = "nil"
    /\ Len(giInv.lineItems) = 2
    /\ giInv.lineItems[1].feature = <<"f">>
    /\ giInv.lineItems[2].feature = <<"g">>

---------------------------------------------------------------------------
(* Several subscriptions of one pair *)

SubscriptionPlanIds == {"p1", "p2"}
LiveStatuses == {"active", "trialing"}

\* CreateSubscription with any plan id and either live status; the ledger
\* and the store check neither the plan nor the pair's other subscriptions
\* (ledger.go:159-180, store.go:145-154).
SubscribeAnyCall ==
    \E t \in Tenants, a \in Apps, p \in SubscriptionPlanIds, s \in LiveStatuses :
        CreateSubscription(t, a, p, s)

\* Subscriptions are created and cancelled while Entitled looks them up; no
\* plan is stored, so every lookup that finds a subscription ends at GetPlan.
NextSubscriptions ==
    \/ SubscribeAnyCall
    \/ CancelCall
    \/ CancelStore
    \/ WriteInvalidate
    \/ EntitledCall
    \/ EntGetSub
    \/ EntGetPlan
    \/ Tick

SpecSubscriptions == Init /\ [][NextSubscriptions]_vars

\* The subscription of a non-empty set of ids that was created last: ids are
\* handed out in creation order.
Newest(S) == CHOOSE i \in S : \A j \in S : j <= i

\* C31: when several subscriptions of a (tenant, app) are active or trialing,
\* the lookup made by Entitled resolves to the one created last, so the plan
\* Entitled goes on with is the plan of the newest live subscription.
C31_NewestActiveReturned ==
    [][(entPc = "getSub" /\ entPc' = "getPlan") =>
        entPlanId' = subscriptions[Newest(ActiveSubscriptions(entCtx.tenant, entCtx.app))].plan]_vars

\* C32: each (tenant, app) has at most one subscription whose status is
\* active or trialing.
C32_AtMostOneLive ==
    \A t \in Tenants, a \in Apps : Cardinality(ActiveSubscriptions(t, a)) <= 1
---------------------------------------------------------------------------
(* Money arithmetic (types.Money) *)

MaxMoneyOps == 2
Currencies == {"usd", "eur"}

\* Amounts at the ends of the range and around zero.
MoneyAmounts == {MinAmount, -1, 0, 1, MaxAmount}
Moneys == [amount : MoneyAmounts, currency : Currencies]

\* A receiver a and an operand b; the chain of calls starts at a.
MoneyInputs ==
    {[a |-> a, b |-> b, acc |-> a, ops |-> <<>>, panicked |-> FALSE, equal |-> FALSE] :
        a \in Moneys, b \in Moneys}

InitMoney ==
    /\ InitEngine
    /\ money \in MoneyInputs
    /\ ident = NoIdent

\* What a Money call leaves alone: everything but the chain.
MoneyFrame ==
    UNCHANGED <<meterVars, usageVars, now, storeVars, entVars, wrVars, emitVars,
                invoices, giCalls, giSub, giRet, giInv, giStoreFailed,
                miCalls, miOp, miId, miRet, ident>>

\* One more call of the chain is possible.
MoneyCallable == ~money.panicked /\ Len(money.ops) < MaxMoneyOps

\* acc = acc.Add(b): assertSameCurrency panics, or the sum is returned
\* (money.go:48-51).
MoneyAdd ==
    /\ MoneyCallable
    /\ money' = IF SameCurrency(money.acc, money.b)
                THEN [money EXCEPT !.acc = Add(money.acc, money.b),
                                   !.ops = Append(@, "Add")]
                ELSE [money EXCEPT !.panicked = TRUE, !.ops = Append(@, "Add")]
    /\ MoneyFrame

\* acc = acc.Subtract(b) (money.go:54-57).
MoneySubtract ==
    /\ MoneyCallable
    /\ money' = IF SameCurrency(money.acc, money.b)
                THEN [money EXCEPT !.acc = Subtract(money.acc, money.b),
                                   !.ops = Append(@, "Subtract")]
                ELSE [money EXCEPT !.panicked = TRUE, !.ops = Append(@, "Subtract")]
    /\ MoneyFrame

\* acc = acc.Add(types.Zero(acc.Currency)).
MoneyAddZero ==
    /\ MoneyCallable
    /\ money' = IF SameCurrency(money.acc, Zero(money.acc.currency))
                THEN [money EXCEPT !.acc = Add(money.acc, Zero(money.acc.currency)),
                                   !.ops = Append(@, "AddZero")]
                ELSE [money EXCEPT !.panicked = TRUE, !.ops = Append(@, "AddZero")]
    /\ MoneyFrame

\* acc.Equal(b), which never panics (money.go:98-100).
MoneyEqual ==
    /\ MoneyCallable
    /\ money' = [money EXCEPT !.equal = Equal(money.acc, money.b),
                              !.ops = Append(@, "Equal")]
    /\ MoneyFrame

NextMoney ==
    \/ MoneyAdd
    \/ MoneySubtract
    \/ MoneyAddZero
    \/ MoneyEqual

SpecMoney == InitMoney /\ [][NextMoney]_vars

\* C33: for Money values a and b of one currency, a.Add(b).Subtract(b) = a,
\* a.Add(b) = b.Add(a) and a.Add(Zero(c)) = a, over the whole range of the
\* amount; Add and Subtract between different currencies panic and return no
\* value, while Equal between different currencies returns false and does
\* not panic.
C33_MoneyLaws ==
    /\ (money.ops = <<"Add", "Subtract">> /\ ~money.panicked) => money.acc = money.a
    /\ (money.ops = <<"Add">> /\ ~money.panicked) => money.acc = Add(money.b, money.a)
    /\ money.ops = <<"AddZero">> => (~money.panicked /\ money.acc = money.a)
    /\ (money.ops # <<>> /\ money.ops[1] \in {"Add", "Subtract"}) =>
          (money.panicked <=> ~SameCurrency(money.a, money.b))
    /\ (money.panicked /\ Len(money.ops) = 1) => money.acc = money.a
    /\ (money.ops = <<"Equal">> /\ ~SameCurrency(money.a, money.b)) =>
          (~money.equal /\ ~money.panicked)

\* The sum left the range and came back: a is the largest amount, b is 1.
C33_Witness ==
    /\ money.ops = <<"Add", "Subtract">>
    /\ ~money.panicked
    /\ money.a.amount = MaxAmount
    /\ money.b.amount = 1
    /\ money.acc = money.a

\* Add between two currencies panicked.
C33_WitnessMismatch ==
    /\ money.ops = <<"Add">>
    /\ money.panicked
    /\ money.a.currency # money.b.currency
---------------------------------------------------------------------------
(* Identifiers (id/id.go) *)

\* Texts are sequences of characters.  A TypeID is a prefix of lower-case
\* letters and inner underscores, and a suffix of fixed length; the model
\* keeps the shape at a suffix of SuffixLen characters.
SuffixLen == 2
SuffixChars == {"0", "1"}
Suffixes == [1..SuffixLen -> SuffixChars]
PrefixChars == {"p", "s", "_"}

\* The prefixes a TypeID accepts: empty, or letters with underscores inside.
ValidPrefix(p) ==
    /\ \A i \in DOMAIN p : p[i] \in PrefixChars
    /\ p # <<>> => (p[1] # "_" /\ p[Len(p)] # "_")
ValidSuffix(x) == Len(x) = SuffixLen /\ \A i \in DOMAIN x : x[i] \in SuffixChars

\* The prefixes identifiers are generated with and parsed against.
Prefixes == {<<>>, <<"p">>, <<"s">>, <<"p", "_", "s">>}

\* typeid's text form, as ID.String returns it (id.go:399-404): the suffix
\* alone for the empty prefix, prefix_suffix otherwise; empty for the Nil ID.
String(i) ==
    IF ~i.valid THEN <<>>
    ELSE IF i.prefix = <<>> THEN i.suffix
    ELSE i.prefix \o <<"_">> \o i.suffix

\* ID.Prefix (id.go:408-413).
Prefix(i) == IF ~i.valid THEN <<>> ELSE i.prefix

\* id.New (id.go:226-232), for a prefix typeid accepts: the suffix is fresh.
New(prefix, suffix) == [prefix |-> prefix, suffix |-> suffix, valid |-> TRUE]

\* The position of the last underscore of a text, 0 if it has none.
LastUnderscore(s) ==
    IF \E i \in DOMAIN s : s[i] = "_"
    THEN CHOOSE i \in DOMAIN s : s[i] = "_" /\ \A j \in DOMAIN s : s[j] = "_" => j <= i
    ELSE 0

\* id.Parse (id.go:237-247): the empty text is an error; otherwise typeid
\* splits the text at its last underscore and checks both parts.
Parse(s) ==
    LET k == LastUnderscore(s)
        prefix == IF k = 0 THEN <<>> ELSE SubSeq(s, 1, k - 1)
        suffix == SubSeq(s, k + 1, Len(s))
    IN  IF s = <<>> \/ k = 1 \/ ~ValidPrefix(prefix) \/ ~ValidSuffix(suffix)
        THEN [id |-> Nil, err |-> TRUE]
        ELSE [id |-> [prefix |-> prefix, suffix |-> suffix, valid |-> TRUE], err |-> FALSE]

\* ParseWithPrefix without the comparison of prefixes.
ParseWithPrefixUnchecked(s, expected) == Parse(s)

\* id.ParseWithPrefix (id.go:252-263).
ParseWithPrefix(s, expected) ==
    LET parsed == Parse(s)
    IN  IF parsed.err THEN [id |-> Nil, err |-> TRUE]
        ELSE IF Prefix(parsed.id) # expected THEN [id |-> Nil, err |-> TRUE]
        ELSE parsed

\* An identifier x generated with one prefix, and the prefix it will be
\* parsed against.
IdentInputs ==
    {[x |-> New(p, sf), expected |-> q, called |-> "none", parsed |-> Nil, err |-> FALSE] :
        p \in Prefixes, sf \in Suffixes, q \in Prefixes}

InitIdent ==
    /\ InitEngine
    /\ money = NoMoneyCall
    /\ ident \in IdentInputs

\* What a call of the id package leaves alone.
IdentFrame ==
    UNCHANGED <<meterVars, usageVars, now, storeVars, entVars, wrVars, emitVars,
                invoices, giCalls, giSub, giRet, giInv, giStoreFailed,
                miCalls, miOp, miId, miRet, money>>

\* The caller evaluates ParseWithPrefix(x.String(), expected).
IdentParseWithPrefix ==
    /\ ident.called = "none"
    /\ LET r == ParseWithPrefix(String(ident.x), ident.expected)
       IN  ident' = [ident EXCEPT !.called = "ParseWithPrefix", !.parsed = r.id,
                                  !.err = r.err]
    /\ IdentFrame

\* The caller evaluates Parse(x.String()) (ParseAny, id.go:391).
IdentParse ==
    /\ ident.called = "none"
    /\ LET r == Parse(String(ident.x))
       IN  ident' = [ident EXCEPT !.called = "Parse", !.parsed = r.id, !.err = r.err]
    /\ IdentFrame

NextIdent ==
    \/ IdentParseWithPrefix
    \/ IdentParse

SpecIdent == InitIdent /\ [][NextIdent]_vars

\* C34: for an identifier x generated with prefix P and any prefix Q,
\* ParseWithPrefix(x.String(), Q) succeeds and returns an identifier with the
\* string form of x if and only if Q = P; for Q different from P it returns
\* an error and the nil identifier.
C34_ParseWithPrefixRoundTrip ==
    ident.called = "ParseWithPrefix" =>
        /\ (~ident.err /\ String(ident.parsed) = String(ident.x))
              <=> (ident.expected = ident.x.prefix)
        /\ ident.expected # ident.x.prefix => (ident.err /\ ident.parsed = Nil)

\* A prefix with an underscore inside went through the round trip.
C34_Witness ==
    /\ ident.called = "ParseWithPrefix"
    /\ ident.x.prefix = <<"p", "_", "s">>
    /\ ident.expected = ident.x.prefix
    /\ ~ident.err
    /\ String(ident.parsed) = String(ident.x)

\* A text of another prefix was rejected.
C34_WitnessRejected ==
    /\ ident.called = "ParseWithPrefix"
    /\ ident.x.prefix = <<"p">>
    /\ ident.expected = <<"s">>
    /\ ident.err
    /\ ident.parsed = Nil
---------------------------------------------------------------------------
(* Cache keys of several pairs *)

\* Store.GetCached (store.go:306-319) as the caller sees it: the entry under
\* the key of the triple, or a miss.
GetCached(t, a, f) ==
    IF CacheHit(CacheKey(t, a, f))
    THEN [hit |-> TRUE, result |-> entitlementCache[CacheKey(t, a, f)]]
    ELSE [hit |-> FALSE, result |-> NoResult]

\* Tenant and app identifiers are arbitrary strings taken from the context
\* (ledger.go:304-314); these pairs include identifiers with a colon in them.
IsoPairs ==
    {<<<<"t">>, <<"a">>>>,
     <<<<"t">>, <<"a", ":", "b">>>>,
     <<<<"t", ":", "a">>, <<"b">>>>,
     <<<<"u">>, <<"a">>>>}

SubscribePairCall == \E p \in IsoPairs : CreateSubscription(p[1], p[2], "p1", "active")
EntitledPairCall == \E p \in IsoPairs, f \in FeatureKeys : EntitledStart(p[1], p[2], f)

\* Entitled calls and subscription writes of several pairs, one plan.
NextIsolation ==
    \/ CreatePlanOnce(CachePlan)
    \/ SubscribePairCall
    \/ CancelCall
    \/ CancelStore
    \/ WriteInvalidate
    \/ EntitledPairCall
    \/ EntGetSub
    \/ EntGetPlan
    \/ EntAggregate
    \/ EntSetCached

SpecIsolation == Init /\ [][NextIsolation]_vars

\* The step in which a subscription write returns.
WriteReturns == wrPc = "invalidate" /\ wrPc' = "idle"

C38_CacheIsolatedPerTriple ==
    [][/\ (entPc = "setCached" /\ entPc' = "done") =>
            \A p \in IsoPairs, f \in FeatureKeys :
                <<p[1], p[2], f>> # <<entCtx.tenant, entCtx.app, entCtx.feature>> =>
                    GetCached(p[1], p[2], f)' = GetCached(p[1], p[2], f)
       /\ WriteReturns =>
            \A p \in IsoPairs, f \in FeatureKeys :
                p # <<wrOp.tenant, wrOp.app>> =>
                    GetCached(p[1], p[2], f)' = GetCached(p[1], p[2], f)]_vars
---------------------------------------------------------------------------
(* Cancelling a subscription *)

\* C36: CancelSubscription(id, immediately = true) leaves the subscription
\* canceled when its store call returns; with immediately = false the store
\* call leaves the status as it was and sets cancel-at to the end of the
\* current period.
C36_ImmediateCancelTakesEffect ==
    [][(wrPc = "cancelStore" /\ wrPc' = "invalidate") =>
        IF wrOp.immediately
        THEN subscriptions'[wrOp.sub].status = "canceled"
        ELSE /\ subscriptions'[wrOp.sub].status = subscriptions[wrOp.sub].status
             /\ subscriptions'[wrOp.sub].cancelAt = subscriptions[wrOp.sub].periodEnd]_vars
---------------------------------------------------------------------------
(* Conservation of events in the pipeline *)

\* The worker's batch is a local of meterFlushWorker: it holds events only
\* while the worker runs.
PendingBatch == IF workerPc = "running" THEN batch ELSE <<>>

\* The events of the flushes that succeeded.
SucceededIds ==
    UNION {Ids(ingestLog[i].events) : i \in {j \in DOMAIN ingestLog : ingestLog[j].ok}}

\* The events passed to IngestBatch, call after call.
PassedToIngest(n) == Ids(ingestLog[n].events)

\* C37: every event for which Meter returned nil is in exactly one of: the
\* channel, the worker's pending batch, a successful IngestBatch call, a
\* failed batch; no event is passed to IngestBatch twice, and no event is
\* ingested that Meter did not accept.
C37_EventConservation ==
    LET places == <<Ids(meterBuffer), Ids(PendingBatch), SucceededIds, FailedIds>>
    IN  /\ accepted = UNION {places[i] : i \in 1..4}
        /\ \A i, j \in 1..4 : i # j => places[i] \cap places[j] = {}
        /\ Cardinality(Ids(meterBuffer)) = Len(meterBuffer)
        /\ Cardinality(Ids(PendingBatch)) = Len(PendingBatch)
        /\ \A n \in DOMAIN ingestLog :
              /\ Cardinality(PassedToIngest(n)) = Len(ingestLog[n].events)
              /\ \A k \in DOMAIN ingestLog : k # n => PassedToIngest(n) \cap PassedToIngest(k) = {}
        /\ IngestedIds \subseteq accepted
        /\ Ids(usageEvents) \subseteq SucceededIds

\* Four accepted events, one in each place.
C37_Witness ==
    /\ Cardinality(accepted) = 4
    /\ Len(meterBuffer) = 1
    /\ Len(PendingBatch) = 1
    /\ SucceededIds # {}
    /\ FailedIds # {}
---------------------------------------------------------------------------
(* The plan's own predicate (plan/models.go) *)

\* Plan.Allows (plan/models.go:94-109).
Allows(p, featureKey, currentUsage) ==
    LET f == FindFeature(p, featureKey)
    IN  IF f = NoFeature THEN FALSE
        ELSE IF f.type = "boolean" THEN f.limit > 0
        ELSE IF f.limit = -1 THEN TRUE
        ELSE IF currentUsage < f.limit THEN TRUE
        ELSE f.softLimit

\* The usage values a boolean decision is compared at: it reads no usage.
UsageValues == 0 .. (MaxStored * 3)

\* C39: when Entitled evaluates on a cache miss with aggregate U, its allowed
\* flag equals Plan.Allows(featureKey, U); for a feature that is not in the
\* plan and for a boolean feature, which are decided without an aggregate,
\* it equals Plan.Allows for every usage.
C39_DecisionAgreesWithAllows ==
    [][/\ (entPc = "aggregate" /\ entPc' = "setCached") =>
            entRet'.allowed = Allows(plans[entPlanId], entCtx.feature, entUsed')
       /\ (entPc = "getPlan" /\ entPath' \in {"feature", "boolean"}) =>
            \A u \in UsageValues :
                entRet'.allowed = Allows(plans[entPlanId], entCtx.feature, u)]_vars

\* A soft-limited feature at its limit was allowed, as Allows says.
C39_Witness ==
    /\ entPc = "setCached"
    /\ entPath = "quota"
    /\ entFeature.softLimit
    /\ entFeature.limit = 2
    /\ entUsed >= 2
    /\ entRet.allowed
    /\ Allows(plans[entPlanId], entCtx.feature, entUsed)

\* A boolean feature with limit -1 was denied, as Allows says.
C39_WitnessBoolean ==
    /\ entPc = "setCached"
    /\ entPath = "boolean"
    /\ entFeature.limit = -1
    /\ ~entRet.allowed
    /\ ~Allows(plans[entPlanId], entCtx.feature, 0)
---------------------------------------------------------------------------
(* Metered usage of either sign, through the pipeline, and the decision *)

QuotaPlan == OneFeaturePlan(<<"f">>, "metered", 2, FALSE)

\* Meter with tenant and app in the context and a quantity of either sign:
\* Meter does not look at the quantity (ledger.go:220-236).
SignedMeterCall ==
    \E t \in Tenants, a \in Apps, f \in FeatureKeys, q \in Quantities : Meter(t, a, f, q)

\* Events are metered, flushed by the worker and read by Entitled.
NextQuota ==
    \/ CreatePlanOnce(QuotaPlan)
    \/ SubscribeCall
    \/ WriteInvalidate
    \/ Start
    \/ SignedMeterCall
    \/ WorkerRecv
    \/ WorkerTick
    \/ EntitledCall
    \/ EntGetSub
    \/ EntGetPlan
    \/ EntAggregate
    \/ EntSetCached

SpecQuota == Init /\ [][NextQuota]_vars

\* C40: for a feature with a finite limit L >= 0, every decision returned by
\* Entitled has 0 <= remaining <= L and used >= 0.
C40_QuotaInRange ==
    (entPc = "done" /\ entPath \in {"quota", "cache"} /\ entRet.limit >= 0) =>
        /\ 0 <= entRet.remaining
        /\ entRet.remaining <= entRet.limit
        /\ entRet.used >= 0
=============================================================================
